---- MODULE Spec2Model ----
(***************************************************************************)
(* Reminder scheduling engine of the Perplexity Telegram bot               *)
(* (app/scheduler/reminder.py): the persisted reminders and users tables,  *)
(* the APScheduler job store, and the coroutines create_reminder,          *)
(* delete_reminder, schedule_reminders_from_db and send_reminder. A        *)
(* coroutine is cut at its awaits: one step runs from one commit or send   *)
(* to the next, with the selects that only read taken along. One coroutine *)
(* of each kind runs at a time. The process may stop and start again at    *)
(* any point; the tables survive, the job store and the coroutines do not. *)
(*                                                                         *)
(* News subscriptions (app/services/news_service.py and                    *)
(* app/scheduler/news_scheduler.py): the topic_subscriptions table, two    *)
(* subscribe_to_topic calls and one unsubscribe_from_topic call made by    *)
(* webhook updates, in any order and interleaving, on a table that holds   *)
(* what earlier calls left (SpecNews); one sweep of the news scheduler at  *)
(* a time beside one call of each kind (SpecSweep). A session object is a  *)
(* copy of the row as it was read; a commit writes the attributes whose    *)
(* value differs from the value read. The news clock counts hours and      *)
(* advances a week at a time, MaxTime times.                               *)
(*                                                                         *)
(* Conversation memory (app/bot/utils.py, app/bot/handlers.py and          *)
(* app/api/perplexity.py): the conversation_history column of one user     *)
(* and the handle_regular_message coroutine, one message at a time, with   *)
(* the /clear command beside it (SpecChat). A message's text and its       *)
(* answer are identified by the number of the message.                     *)
(*                                                                         *)
(* Pure functions (get_conversation_history, update_conversation_history,  *)
(* the parsers of app/bot/utils.py) are operators; the specifications that *)
(* apply them record the last application in call and result.              *)
(*                                                                         *)
(* Reminder requests (handle_reminder_request, parse_recurrence_pattern    *)
(* and parse_reminder_time): a text is the record of the clauses that the  *)
(* regular expressions of DATETIME_FORMATS and RECURRENCE_FORMATS find in  *)
(* it, with the digit groups as numbers; datetime values are records of    *)
(* the proleptic Gregorian calendar, as datetime computes them             *)
(* (SpecParse). The remote call of ask_question ends in one of the ways    *)
(* of RemoteOutcomes, and the content of an answer is a sequence of        *)
(* tokens (SpecAsk).                                                       *)
(*                                                                         *)
(* Scheduled jobs: the fires of armed reminders beside the sweeps of the   *)
(* news scheduler, each of which can fail (SpecJobs).                      *)
(*                                                                         *)
(* The reminder engine while the process keeps running, with the fairness  *)
(* of the event loop and of the scheduler (SpecFair), and the delete       *)
(* requests with the account that sends them (SpecDelete).                 *)
(***************************************************************************)
EXTENDS Bags, FiniteSets, Integers, Sequences, TLC

\* ---- bounds ----
MaxId == 1          \* reminder ids handed out by the reminders table
MaxTime == 1        \* the clock runs over 0..MaxTime
NumUsers == 1       \* rows of the users table
MaxDelivered == 2   \* deliveries of one text are counted up to this number
MaxSubId == 2       \* ids handed out by the topic_subscriptions table

MaxTurns == 4       \* messages the user sends
MaxLen == 11        \* entries of a stored history given to the formatter
NowDays == 7        \* consecutive days the current instant is taken from
MaxN == 2           \* N of "in N <unit>"
MaxContent == 4     \* tokens in the content of an answer

\* timedelta(hours=1), timedelta(days=1), timedelta(weeks=1), in hours
Hour == 1
Day == 24
Week == 168

Users == 1..NumUsers
Ids == 1..MaxId
Times == 0..MaxTime
SubIds == 1..MaxSubId
Topics == {"ai", "space"}
Frequencies == {"hourly", "daily", "weekly"}
SubTasks == {"s1", "s2"}

\* get_conversation_history(user, limit=10); "if len(history) > 20"
HistoryLimit == 10
HistoryCap == 20

VARIABLES
    now,              \* datetime.now(timezone.utc)
    reminders,        \* reminders table: id -> row
    nextId,           \* next primary key of the reminders table
    reminders_count,  \* users table: User.reminders_count per user
    jobs,             \* the scheduler's job store, a bag of jobs
    pcCreate,         \* position of the create_reminder coroutine
    crReminder,       \* its Reminder object (session state, not yet flushed)
    crCount,          \* reminders_count of the User object it loaded
    crPast,           \* its scheduled_at was in the past when it was called
    pcDelete,         \* position of the delete_reminder coroutine
    delId,            \* its reminder_id argument
    delCount,         \* reminders_count of the User object it loaded
    pcRecover,        \* position of schedule_reminders_from_db
    recTodo,          \* Reminder objects it loaded and has not scheduled yet
    pcFire,           \* position of the send_reminder coroutine
    fireId,           \* its reminder_id argument
    fireOnce,         \* the job that started it had a DateTrigger
    delivered,        \* per id: deliveries of a one-shot reminder's text
    ret,              \* what the last step did or returned
    utcnow,           \* datetime.now(timezone.utc) of the news service, hours
    subscriptions,    \* topic_subscriptions table: id -> row
    nextSubId,        \* next primary key of the topic_subscriptions table
    subTask,          \* the subscribe_to_topic coroutines
    unsubTask,        \* the unsubscribe_from_topic coroutine
    sweepKind,        \* the running sweep: "idle", "due" or a frequency
    sweepTodo,        \* rows the sweep loaded and has not processed yet
    timers,           \* job store of the news scheduler: ids of its jobs
    escaped,          \* the exception that last left a scheduled job, or ""
    conversation_history,  \* users table: the stored history of the user
    turn,             \* number of the message being handled (messages so far)
    pcMsg,            \* position of the handle_regular_message coroutine
    userHistory,      \* conversation_history of its session's User object
    messages,         \* what ask_question last sent to the remote API
    call,             \* last application of a pure function: its arguments
    result            \* and what it returned

subscriptionVars == <<utcnow, subscriptions, nextSubId, subTask, unsubTask,
                      sweepKind, sweepTodo>>

newsVars == <<subscriptionVars, timers, escaped>>

chatVars == <<conversation_history, turn, pcMsg, userHistory, messages>>

fnVars == <<call, result>>

vars == <<now, reminders, nextId, reminders_count, jobs, pcCreate, crReminder,
          crCount, crPast, pcDelete, delId, delCount, pcRecover, recTodo,
          pcFire, fireId, fireOnce, delivered, ret, newsVars, chatVars, fnVars>>

createVars == <<pcCreate, crReminder, crCount, crPast>>
deleteVars == <<pcDelete, delId, delCount>>
recoverVars == <<pcRecover, recTodo>>
fireVars == <<pcFire, fireId, fireOnce>>

NoReminder == [id |-> 0]

Ret(op, id, val, note) == [op |-> op, id |-> id, val |-> val, note |-> note]

NoRet == Ret("none", 0, FALSE, "")

\* ---- models/reminder.py ----
Reminder(id, u, t, rec, act) ==
    [id |-> id, user_id |-> u, scheduled_at |-> t, is_recurring |-> rec,
     is_active |-> act]

\* ---- the scheduler's job store (AsyncIOScheduler, memory job store) ----
NoJobs == EmptyBag

\* a job: id "reminder_<id>" with a CronTrigger or a DateTrigger(run_date)
Job(r) == [id |-> r.id, is_recurring |-> r.is_recurring,
           run_date |-> IF r.is_recurring THEN 0 ELSE r.scheduled_at]

JobsOf(js, id) == {j \in BagToSet(js) : j.id = id}

RECURSIVE SumCopies(_, _)
SumCopies(js, S) ==
    IF S = {} THEN 0
    ELSE LET j == CHOOSE x \in S : TRUE
         IN  CopiesIn(j, js) + SumCopies(js, S \ {j})

\* number of live triggers for a reminder id
JobCount(js, id) == SumCopies(js, JobsOf(js, id))

HasJob(js, id) == JobsOf(js, id) # {}

WithoutId(js, id) ==
    LET keep == {j \in BagToSet(js) : j.id # id}
    IN  [j \in keep |-> js[j]]

add_job_dup(js, job) == js (+) SetToBag({job})

\* scheduler.add_job(..., id=f"reminder_{id}", replace_existing=True)
add_job(js, job) == WithoutId(js, job.id) (+) SetToBag({job})

remove_job_keep(js, id) == js

\* scheduler.remove_job(id); raises JobLookupError when there is no such job,
\* which both callers catch
remove_job(js, id) == WithoutId(js, id)

\* ---- schedule_reminder ----
\* select(User).where(User.id == reminder.user_id) finds a row
UserExists(u) == u \in Users

ScheduleOutcome_nocheck(r) ==
    IF ~UserExists(r.user_id) THEN "nouser" ELSE "armed"

\* which way schedule_reminder leaves: "nouser", "past" or "armed"
ScheduleOutcome(r) ==
    IF ~UserExists(r.user_id) THEN "nouser"
    ELSE IF r.scheduled_at < now /\ ~r.is_recurring THEN "past"
    ELSE "armed"

\* the job store after schedule_reminder(r)
ScheduleJobs(r) ==
    IF ScheduleOutcome(r) = "armed" THEN add_job(jobs, Job(r)) ELSE jobs

\* the caller's Reminder object after schedule_reminder(r): is_active is set
\* on the object, which belongs to the caller's session; the commit at line
\* 70 is on schedule_reminder's own session and writes nothing
ScheduleObject(r) ==
    IF ScheduleOutcome(r) = "past" THEN [r EXCEPT !.is_active = FALSE] ELSE r

\* what the step that ran schedule_reminder(r) reports: a trigger armed, or
\* (from the recovery pass) a one-shot reminder found in the past
ScheduleRet(r, who) ==
    IF ScheduleOutcome(r) = "armed"
    THEN Ret("armed", r.id, HasJob(jobs, r.id), who)
    ELSE IF ScheduleOutcome(r) = "past" /\ who = "recover"
    THEN Ret("past", r.id, FALSE, who)
    ELSE NoRet

\* ---- models/topic_subscription.py ----
\* last_run of a row that was never processed (nullable column)
NoTime == -1

Subscription(id, u, topic, f, last, next, act) ==
    [id |-> id, user_id |-> u, topic |-> topic, frequency |-> f,
     last_run |-> last, next_run |-> next, is_active |-> act]

NoSubscription == Subscription(0, 0, "", "", NoTime, NoTime, FALSE)

\* ---- news_service.py ----
Period(frequency) ==
    IF frequency = "hourly" THEN Hour
    ELSE IF frequency = "daily" THEN Day
    ELSE IF frequency = "weekly" THEN Week
    ELSE Day

calculate_next_run_daily(frequency, t) == t + Day

\* _calculate_next_run(frequency), read at instant t
calculate_next_run(frequency, t) == t + Period(frequency)

\* session.commit(): the UPDATE sets the attributes of the object whose
\* value differs from the value that was loaded
Flush(tbl, loaded, obj) ==
    [tbl EXCEPT ![loaded.id] =
        [fld \in DOMAIN @ |->
            IF obj[fld] # loaded[fld] THEN obj[fld] ELSE @[fld]]]

\* the stored row is still as the session read it
Undisturbed(loaded) ==
    loaded.id \in DOMAIN subscriptions /\ subscriptions[loaded.id] = loaded

\* a call that has not been made yet, and one that has returned
IdleTask == [pc |-> "idle"]

DoneTask == [pc |-> "done"]

\* select(TopicSubscription).where(user_id == ..., topic == ...)
Matching(u, topic) ==
    {id \in DOMAIN subscriptions :
        subscriptions[id].user_id = u /\ subscriptions[id].topic = topic}

NeedsUpdate_always(existing, frequency) == TRUE

\* lines 36 and 45: the existing row is inactive, or active with another
\* frequency
NeedsUpdate(existing, frequency) ==
    ~existing.is_active \/ existing.frequency # frequency

\* the existing object after lines 38-40 or 46-47
Resubscribed(existing, frequency, t) ==
    [existing EXCEPT !.is_active = IF existing.is_active THEN @ ELSE TRUE,
                     !.frequency = frequency,
                     !.next_run = calculate_next_run(frequency, t)]

\* ---- news_scheduler.py: NewsScheduler.start ----
\* the interval job of each sweep
TimerOf ==
    [due |-> "process_news_subscriptions",
     hourly |-> "process_hourly_subscriptions",
     daily |-> "process_daily_subscriptions",
     weekly |-> "process_weekly_subscriptions"]

NewsTimers == {TimerOf[kind] : kind \in DOMAIN TimerOf}

Swallowed_reraise(exc) == exc

\* "except Exception as e: logger.error(...)" of a scheduled job: the
\* exception exc does not leave the job
Swallowed(exc) == ""

\* rows an earlier run of the process may have left in the table: none, or
\* one subscription made at instant 0, still active or unsubscribed
StoredRows ==
    {<< >>} \cup
    {<<Subscription(1, u, topic, f, NoTime, calculate_next_run(f, 0), act)>> :
        u \in Users, topic \in {"ai"}, f \in Frequencies, act \in BOOLEAN}

\* the news service after start: no coroutine runs, the table is empty
NewsInit ==
    /\ utcnow = 0
    /\ subscriptions = << >>
    /\ nextSubId = 1
    /\ subTask = [p \in SubTasks |-> IdleTask]
    /\ unsubTask = IdleTask
    /\ sweepKind = "idle"
    /\ sweepTodo = {}
    /\ timers = NewsTimers
    /\ escaped = ""

TypeOK ==
    /\ now \in Times
    /\ nextId \in 1..(MaxId + 1)
    /\ DOMAIN reminders \subseteq 1..(nextId - 1)
    /\ reminders_count \in [Users -> Nat]
    /\ pcCreate \in {"idle", "schedule", "commit"}
    /\ crPast \in BOOLEAN
    /\ pcDelete \in {"idle", "commit", "unjob"}
    /\ delId \in 0..MaxId
    /\ pcRecover \in {"load", "loop", "done"}
    /\ pcFire \in {"idle", "sending", "sent", "committed"}
    /\ fireId \in 0..MaxId
    /\ fireOnce \in BOOLEAN
    /\ delivered \in [Ids -> 0..MaxDelivered]
    /\ utcnow \in {t * Week : t \in Times}
    /\ nextSubId \in 1..(MaxSubId + 1)
    /\ DOMAIN subscriptions = 1..(nextSubId - 1)
    /\ \A id \in DOMAIN subscriptions :
          /\ subscriptions[id].id = id
          /\ subscriptions[id].user_id \in Users
          /\ subscriptions[id].topic \in Topics
          /\ subscriptions[id].frequency \in Frequencies
          /\ subscriptions[id].is_active \in BOOLEAN
    /\ \A p \in SubTasks :
          subTask[p].pc \in {"idle", "update", "insert", "done"}
    /\ unsubTask.pc \in {"idle", "commit", "done"}
    /\ sweepKind \in {"idle", "due"} \cup Frequencies
    /\ timers \subseteq NewsTimers
    /\ turn \in 0..MaxTurns
    /\ pcMsg \in {"idle", "asked", "saved"}
    /\ Len(conversation_history) <= HistoryCap

\* main.startup_event has called start(): the scheduler runs with an empty
\* job store and the schedule_reminders_from_db task is created
ReminderInit ==
    /\ now = 0
    /\ reminders = << >>
    /\ nextId = 1
    /\ reminders_count = [u \in Users |-> 0]
    /\ jobs = NoJobs
    /\ pcCreate = "idle"
    /\ crReminder = NoReminder
    /\ crCount = 0
    /\ crPast = FALSE
    /\ pcDelete = "idle"
    /\ delId = 0
    /\ delCount = 0
    /\ pcRecover = "load"
    /\ recTodo = {}
    /\ pcFire = "idle"
    /\ fireId = 0
    /\ fireOnce = FALSE
    /\ delivered = [id \in Ids |-> 0]
    /\ ret = NoRet

\* ---- bot/utils.py, api/perplexity.py: conversation history ----
Entry(role, content) == [role |-> role, content |-> content]

\* the system entry that get_conversation_history and ask_question put first
SystemEntry == Entry("system", 0)

\* history[-n:]
LastN(h, n) == IF Len(h) <= n THEN h ELSE SubSeq(h, Len(h) - n + 1, Len(h))

\* [msg for msg in history if msg.get("role") == role]
OfRole(h, role) == SelectSeq(h, LAMBDA e : e.role = role)

Min2(a, b) == IF a < b THEN a ELSE b

Paired_rest(us, as) ==
    [i \in 1..(2 * Min2(Len(us), Len(as))) |->
        IF i % 2 = 1 THEN us[(i + 1) \div 2] ELSE as[i \div 2]]
      \o SubSeq(us, Len(as) + 1, Len(us))

\* lines 198-205: user_messages[i], assistant_messages[i] in turn, then the
\* last user message when there are more user than assistant messages
Paired(us, as) ==
    [i \in 1..(2 * Min2(Len(us), Len(as))) |->
        IF i % 2 = 1 THEN us[(i + 1) \div 2] ELSE as[i \div 2]]
      \o (IF Len(us) > Len(as) THEN <<us[Len(us)]>> ELSE << >>)

\* get_conversation_history(user) for a stored history h
get_conversation_history(h) ==
    IF h = << >> THEN <<SystemEntry>>
    ELSE <<SystemEntry>> \o
           Paired(OfRole(LastN(h, HistoryLimit), "user"),
                  OfRole(LastN(h, HistoryLimit), "assistant"))

\* the messages ask_question(query, conversation_history) sends: the system
\* prompt, the history without a leading system entry, the query as user
ask_question(query, history) ==
    <<SystemEntry>>
      \o (IF history # << >> /\ history[1].role = "system"
          THEN Tail(history) ELSE history)
      \o <<Entry("user", query)>>

Appended_always(h, role, content) == Append(h, Entry(role, content))

\* lines 243-254: the content of the last entry is replaced when it has the
\* role, otherwise an entry is appended
Appended(h, role, content) ==
    IF h # << >> /\ h[Len(h)].role = role
    THEN [h EXCEPT ![Len(h)].content = content]
    ELSE Append(h, Entry(role, content))

update_conversation_history_nocap(h, role, content) ==
    Appended(h, role, content)

\* update_conversation_history(user, role, content)
update_conversation_history(h, role, content) ==
    LastN(Appended(h, role, content), HistoryCap)

\* no message has been received and the stored history is "[]"
ChatInit ==
    /\ conversation_history = << >>
    /\ turn = 0
    /\ pcMsg = "idle"
    /\ userHistory = << >>
    /\ messages = << >>

\* ---- datetime, timedelta ----
DateTime(y, mo, d, h, mi, sec) ==
    [year |-> y, month |-> mo, day |-> d, hour |-> h, minute |-> mi,
     second |-> sec]

\* None where a datetime is expected
NoDateTime == DateTime(0, 0, 0, 0, 0, 0)

is_leap(y) == y % 4 = 0 /\ (y % 100 # 0 \/ y % 400 = 0)

days_before_year(y) ==
    (y - 1) * 365 + (y - 1) \div 4 - (y - 1) \div 100 + (y - 1) \div 400

DAYS_IN_MONTH == <<31, 28, 31, 30, 31, 30, 31, 31, 30, 31, 30, 31>>

days_in_month(y, mo) ==
    IF mo = 2 /\ is_leap(y) THEN 29 ELSE DAYS_IN_MONTH[mo]

DAYS_BEFORE_MONTH == <<0, 31, 59, 90, 120, 151, 181, 212, 243, 273, 304, 334>>

days_before_month(y, mo) ==
    DAYS_BEFORE_MONTH[mo] + (IF mo > 2 /\ is_leap(y) THEN 1 ELSE 0)

\* date.toordinal(): 1 January of year 1 is day 1
toordinal(dt) ==
    days_before_year(dt.year) + days_before_month(dt.year, dt.month) + dt.day

YearOfOrdinal(n) ==
    CHOOSE y \in (n \div 366)..(n \div 365 + 1) :
        days_before_year(y) < n /\ n <= days_before_year(y + 1)

MonthOfOrdinal(y, n) ==
    CHOOSE mo \in 1..12 :
        /\ days_before_month(y, mo) < n - days_before_year(y)
        /\ n - days_before_year(y)
              <= days_before_month(y, mo) + days_in_month(y, mo)

\* date.fromordinal(n), with the time of day of dt
fromordinal(n, dt) ==
    LET y == YearOfOrdinal(n)
        mo == MonthOfOrdinal(y, n)
    IN  [dt EXCEPT !.year = y, !.month = mo,
                   !.day = n - days_before_year(y) - days_before_month(y, mo)]

\* datetime.weekday(): Monday is 0, Sunday is 6
weekday(dt) == (toordinal(dt) + 6) % 7

MinuteOfDay(dt) == dt.hour * 60 + dt.minute

\* dt + timedelta(days=days, minutes=minutes)
timedelta_add(dt, days, minutes) ==
    LET total == MinuteOfDay(dt) + minutes
    IN  fromordinal(toordinal(dt) + days + total \div 1440,
                    [dt EXCEPT !.hour = (total % 1440) \div 60,
                               !.minute = total % 60])

\* a < b on datetime values
Before(a, b) ==
    \/ toordinal(a) < toordinal(b)
    \/ /\ toordinal(a) = toordinal(b)
       /\ \/ MinuteOfDay(a) < MinuteOfDay(b)
          \/ MinuteOfDay(a) = MinuteOfDay(b) /\ a.second < b.second

\* the values the datetime constructor accepts; otherwise ValueError
ValidDate(y, mo, d) ==
    /\ y \in 1..9999
    /\ mo \in 1..12
    /\ d >= 1
    /\ d <= days_in_month(y, mo)

ValidTime(h, mi) == h \in 0..23 /\ mi \in 0..59

\* ---- what a parser gives back ----
\* the fields of a cron rule "minute hour day month day_of_week"; Star is *
Star == -1

Cron(mi, h, dom, dow) ==
    [minute |-> mi, hour |-> h, day |-> dom, month |-> Star,
     day_of_week |-> dow]

NoCron == Cron(Star, Star, Star, Star)

Parsed(cron, time, error) ==
    [raised |-> "", cron |-> cron, time |-> time, error |-> error]

\* the call did not return: the exception left the parser
Raised(exc) ==
    [raised |-> exc, cron |-> NoCron, time |-> NoDateTime, error |-> ""]

\* ---- the clauses of a text ----
NoDate == [day |-> -1, month |-> -1, year |-> -1, digits |-> 0]

NoClock == [hour |-> -1, minute |-> -1, ampm |-> ""]

NoRel == [n |-> -1, unit |-> ""]

NoEvery == [kind |-> "", day_of_week |-> "", day |-> -1]

Text(every, date, clock, rel, word) ==
    [every |-> every, date |-> date, clock |-> clock, rel |-> rel,
     word |-> word]

\* int("20" + year if len(year) == 2 else year)
YearOf(date) == IF date.digits = 2 THEN 2000 + date.year ELSE date.year

hour_24_never(hour, ampm) == hour

\* "if hour == 12 and ampm.lower().startswith('a'): hour = 0
\*  elif hour < 12 and ampm.lower().startswith('p'): hour += 12"
hour_24(hour, ampm) ==
    IF hour = 12 /\ ampm = "am" THEN 0
    ELSE IF hour < 12 /\ ampm = "pm" THEN hour + 12
    ELSE hour

\* now.replace(hour=hour, minute=minute, second=0, microsecond=0)
AtTime(dt, h, mi) == [dt EXCEPT !.hour = h, !.minute = mi, !.second = 0]

roll_never(t, cur) == t

\* "if time_today < now: time_today += timedelta(days=1)"
roll(t, cur) == IF Before(t, cur) THEN timedelta_add(t, 1, 0) ELSE t

\* DATETIME_FORMATS[8..11]; there is no pattern for any other unit
RelativeMinutes ==
    [minutes |-> 1, hours |-> 60, days |-> 1440, weeks |-> 10080]

\* ---- parse_reminder_time(text); cur is what datetime.now gives it ----
parse_reminder_time(text, cur) ==
    LET date == text.date
        clock == text.clock
    IN
    IF date # NoDate /\ clock # NoClock /\ clock.ampm # ""
    THEN IF /\ ValidDate(YearOf(date), date.month, date.day)
            /\ ValidTime(hour_24(clock.hour, clock.ampm), clock.minute)
         THEN Parsed(NoCron,
                     DateTime(YearOf(date), date.month, date.day,
                              hour_24(clock.hour, clock.ampm),
                              clock.minute, 0), "")
         ELSE Parsed(NoCron, NoDateTime, "hint12")
    ELSE IF date # NoDate /\ clock # NoClock
    THEN IF /\ ValidDate(YearOf(date), date.month, date.day)
            /\ ValidTime(clock.hour, clock.minute)
         THEN Parsed(NoCron,
                     DateTime(YearOf(date), date.month, date.day,
                              clock.hour, clock.minute, 0), "")
         ELSE Parsed(NoCron, NoDateTime, "hint24")
    ELSE IF clock # NoClock /\ clock.ampm # ""
    THEN IF ValidTime(hour_24(clock.hour, clock.ampm), clock.minute)
         THEN Parsed(NoCron,
                     roll(AtTime(cur, hour_24(clock.hour, clock.ampm),
                                 clock.minute), cur), "")
         ELSE Raised("ValueError")
    ELSE IF clock # NoClock
    THEN IF ValidTime(clock.hour, clock.minute)
         THEN Parsed(NoCron,
                     roll(AtTime(cur, clock.hour, clock.minute), cur), "")
         ELSE Raised("ValueError")
    ELSE IF text.rel # NoRel /\ text.rel.unit \in DOMAIN RelativeMinutes
    THEN Parsed(NoCron,
                timedelta_add(cur, 0,
                              text.rel.n * RelativeMinutes[text.rel.unit]),
                "")
    ELSE IF text.word = "tomorrow"
    THEN Parsed(NoCron, AtTime(timedelta_add(cur, 1, 0), 9, 0), "")
    ELSE IF text.word = "today"
    THEN Parsed(NoCron, timedelta_add(cur, 0, 60), "")
    ELSE IF text.word = "next week"
    THEN Parsed(NoCron,
                AtTime(timedelta_add(cur,
                                     IF (7 - weekday(cur)) % 7 = 0 THEN 7
                                     ELSE (7 - weekday(cur)) % 7, 0),
                       9, 0), "")
    ELSE IF text.word = "next month"
    THEN Parsed(NoCron,
                AtTime(IF cur.month = 12
                       THEN [cur EXCEPT !.year = cur.year + 1, !.month = 1,
                                        !.day = 1]
                       ELSE [cur EXCEPT !.month = cur.month + 1, !.day = 1],
                       9, 0), "")
    ELSE Parsed(NoCron, NoDateTime, "unknown")

\* ---- parse_recurrence_pattern(text); cur is what datetime.now gives it ----
DOW_MAP ==
    [monday |-> 1, tuesday |-> 2, wednesday |-> 3, thursday |-> 4,
     friday |-> 5, saturday |-> 6, sunday |-> 0]

\* "if ampm:" and the conversion; hour and minute of the clause
RecurHour(clock) ==
    IF clock.ampm # "" THEN hour_24(clock.hour, clock.ampm) ELSE clock.hour

\* lines 530-532
days_until(dow, cur, hour, minute) ==
    IF /\ (dow - weekday(cur) + 7) % 7 = 0
       /\ \/ cur.hour > hour
          \/ cur.hour = hour /\ cur.minute >= minute
    THEN 7
    ELSE (dow - weekday(cur) + 7) % 7

NextMonth_same_year(t, cur) ==
    [t EXCEPT !.month = IF cur.month = 12 THEN 1 ELSE cur.month + 1]

\* lines 557-562: the same day of the month after that of cur
NextMonth(t, cur) ==
    IF cur.month = 12
    THEN [t EXCEPT !.year = cur.year + 1, !.month = 1]
    ELSE [t EXCEPT !.month = cur.month + 1]

parse_recurrence_pattern(text, cur) ==
    LET every == text.every
        hour == RecurHour(text.clock)
        minute == text.clock.minute
    IN
    IF every.kind = "day"
    THEN IF ValidTime(hour, minute)
         THEN Parsed(Cron(minute, hour, Star, Star),
                     roll(AtTime(cur, hour, minute), cur), "")
         ELSE Raised("ValueError")
    ELSE IF every.kind = "week"
    THEN IF ValidTime(hour, minute)
         THEN Parsed(Cron(minute, hour, Star, DOW_MAP[every.day_of_week]),
                     AtTime(timedelta_add(cur,
                                days_until(DOW_MAP[every.day_of_week], cur,
                                           hour, minute), 0),
                            hour, minute), "")
         ELSE Raised("ValueError")
    ELSE IF every.kind = "month"
    THEN IF Min2(every.day, 28) >= 1 /\ ValidTime(hour, minute)
         THEN LET first_time ==
                    [AtTime(cur, hour, minute) EXCEPT
                        !.day = Min2(every.day, 28)]
              IN  Parsed(Cron(minute, hour, every.day, Star),
                         IF Before(first_time, cur)
                         THEN NextMonth(first_time, cur)
                         ELSE first_time, "")
         ELSE Raised("ValueError")
    ELSE Parsed(NoCron, NoDateTime, "unknown_recurrence")

\* no function has been applied
NoCall == [fn |-> "none"]

FnInit ==
    /\ call = NoCall
    /\ result = << >>

Init == ReminderInit /\ NewsInit /\ ChatInit /\ FnInit

\* the clock advances
Tick ==
    /\ now < MaxTime
    /\ now' = now + 1
    /\ ret' = NoRet
    /\ UNCHANGED <<reminders, nextId, reminders_count, jobs, createVars,
                   deleteVars, recoverVars, fireVars, delivered, newsVars,
                   chatVars, fnVars>>

\* ---- create_reminder ----
\* Reminder(..., is_active=True); session.add; commit; refresh. The
\* scheduled_at of a recurring reminder is the first occurrence computed by
\* parse_recurrence_pattern and is read by nothing in the engine.
CreateAdd(u, t, rec) ==
    /\ pcCreate = "idle"
    /\ nextId <= MaxId
    /\ rec => t >= now
    /\ reminders' = (nextId :> Reminder(nextId, u, t, rec, TRUE)) @@ reminders
    /\ crReminder' = Reminder(nextId, u, t, rec, TRUE)
    /\ crPast' = (t < now /\ ~rec)
    /\ nextId' = nextId + 1
    /\ pcCreate' = "schedule"
    /\ ret' = NoRet
    /\ UNCHANGED <<now, reminders_count, jobs, crCount, deleteVars,
                   recoverVars, fireVars, delivered, newsVars, chatVars,
                   fnVars>>

\* await self.schedule_reminder(reminder), then
\* select(User).where(User.id == user_id): the select only reads the users
\* table, so it is taken in the same step
CreateSchedule ==
    /\ pcCreate = "schedule"
    /\ jobs' = ScheduleJobs(crReminder)
    /\ crReminder' = ScheduleObject(crReminder)
    /\ crCount' = reminders_count[crReminder.user_id]
    /\ ret' = ScheduleRet(crReminder, "create")
    /\ pcCreate' = "commit"
    /\ UNCHANGED <<now, reminders, nextId, reminders_count, crPast,
                   deleteVars, recoverVars, fireVars, delivered, newsVars,
                   chatVars, fnVars>>

\* user.reminders_count += 1; session.commit() flushes the session: the
\* user's counter and, when schedule_reminder changed it, the reminder's
\* is_active. The UPDATE of a row deleted meanwhile matches no row: the
\* commit raises and the transaction is rolled back.
CreateCommit ==
    /\ pcCreate = "commit"
    /\ LET id == crReminder.id
           dirty == ~crReminder.is_active
           stale == dirty /\ id \notin DOMAIN reminders
       IN  /\ reminders' =
                IF dirty /\ ~stale
                THEN [reminders EXCEPT ![id].is_active = FALSE]
                ELSE reminders
           /\ reminders_count' =
                IF stale THEN reminders_count
                ELSE [reminders_count EXCEPT
                          ![crReminder.user_id] = crCount + 1]
           /\ ret' = Ret(IF stale THEN "create_raise" ELSE "create", id,
                         crPast, "")
    /\ pcCreate' = "idle"
    /\ crReminder' = NoReminder
    /\ crCount' = 0
    /\ crPast' = FALSE
    /\ UNCHANGED <<now, nextId, jobs, deleteVars, recoverVars, fireVars,
                   delivered, newsVars, chatVars, fnVars>>

\* ---- delete_reminder ----
DeleteLookup_true(id) ==
    /\ pcDelete = "idle"
    /\ delId' = IF id \in DOMAIN reminders THEN id ELSE 0
    /\ delCount' = IF id \in DOMAIN reminders
                   THEN reminders_count[reminders[id].user_id] ELSE 0
    /\ pcDelete' = IF id \in DOMAIN reminders THEN "commit" ELSE "idle"
    /\ ret' = IF id \in DOMAIN reminders THEN NoRet
              ELSE Ret("delete", id, TRUE, "")
    /\ UNCHANGED <<now, reminders, nextId, reminders_count, jobs, createVars,
                   recoverVars, fireVars, delivered, newsVars, chatVars,
                   fnVars>>

\* select(Reminder).where(Reminder.id == reminder_id); return False if none;
\* select(User).where(User.id == reminder.user_id): both only read, and are
\* taken in one step
DeleteLookup(id) ==
    /\ pcDelete = "idle"
    /\ delId' = IF id \in DOMAIN reminders THEN id ELSE 0
    /\ delCount' = IF id \in DOMAIN reminders
                   THEN reminders_count[reminders[id].user_id] ELSE 0
    /\ pcDelete' = IF id \in DOMAIN reminders THEN "commit" ELSE "idle"
    /\ ret' = IF id \in DOMAIN reminders THEN NoRet
              ELSE Ret("delete", id, FALSE, "")
    /\ UNCHANGED <<now, reminders, nextId, reminders_count, jobs, createVars,
                   recoverVars, fireVars, delivered, newsVars, chatVars,
                   fnVars>>

\* if user and user.reminders_count > 0: user.reminders_count -= 1;
\* session.delete(reminder); session.commit()
DeleteCommit ==
    /\ pcDelete = "commit"
    /\ reminders' = [i \in DOMAIN reminders \ {delId} |-> reminders[i]]
    /\ reminders_count' =
         IF delCount > 0
         THEN [reminders_count EXCEPT
                   ![reminders[delId].user_id] = delCount - 1]
         ELSE reminders_count
    /\ pcDelete' = "unjob"
    /\ ret' = NoRet
    /\ UNCHANGED <<now, nextId, jobs, createVars, delId, delCount,
                   recoverVars, fireVars, delivered, newsVars, chatVars,
                   fnVars>>

\* try: self.scheduler.remove_job(...) except: log; return True
DeleteRemoveJob ==
    /\ pcDelete = "unjob"
    /\ jobs' = remove_job(jobs, delId)
    /\ ret' = Ret("delete", delId, TRUE,
                  IF HasJob(jobs, delId) THEN "job" ELSE "nojob")
    /\ pcDelete' = "idle"
    /\ delId' = 0
    /\ delCount' = 0
    /\ UNCHANGED <<now, reminders, nextId, reminders_count, createVars,
                   recoverVars, fireVars, delivered, newsVars, chatVars,
                   fnVars>>

\* ---- schedule_reminders_from_db ----
ActiveReminders_oneshot ==
    {reminders[i] : i \in {k \in DOMAIN reminders :
                             reminders[k].is_active
                             /\ ~reminders[k].is_recurring}}

\* select(Reminder).where(Reminder.is_active == True)
ActiveReminders ==
    {reminders[i] : i \in {k \in DOMAIN reminders : reminders[k].is_active}}

RecoverLoad ==
    /\ pcRecover = "load"
    /\ recTodo' = ActiveReminders
    /\ pcRecover' = IF ActiveReminders = {} THEN "done" ELSE "loop"
    /\ ret' = NoRet
    /\ UNCHANGED <<now, reminders, nextId, reminders_count, jobs, createVars,
                   deleteVars, fireVars, delivered, newsVars, chatVars,
                   fnVars>>

\* for reminder in reminders: await self.schedule_reminder(reminder); the
\* session is closed without a commit when the loop ends, so is_active set on
\* a loaded object is never written
RecoverStep(r) ==
    /\ pcRecover = "loop"
    /\ r \in recTodo
    /\ jobs' = ScheduleJobs(r)
    /\ recTodo' = recTodo \ {r}
    /\ pcRecover' = IF recTodo = {r} THEN "done" ELSE "loop"
    /\ ret' = ScheduleRet(r, "recover")
    /\ UNCHANGED <<now, reminders, nextId, reminders_count, createVars,
                   deleteVars, fireVars, delivered, newsVars, chatVars,
                   fnVars>>

\* ---- a trigger fires and send_reminder runs ----
\* a job is due: a cron job at each of its times, a date job once its
\* run_date is behind the clock
Due(j) == j.is_recurring \/ j.run_date < now

JobsAfterRun_drop(js, j) == WithoutId(js, j.id)

JobsAfterRun_stay(js, j) == js

\* the scheduler has run a due job: a cron job stays in the store, a date
\* job has no next run time and leaves the store
JobsAfterRun(js, j) == IF j.is_recurring THEN js ELSE WithoutId(js, j.id)

Fire(j) ==
    /\ BagIn(j, jobs)
    /\ Due(j)
    /\ pcFire = "idle"
    /\ jobs' = JobsAfterRun(jobs, j)
    /\ pcFire' = "sending"
    /\ fireId' = j.id
    /\ fireOnce' = ~j.is_recurring
    /\ ret' = NoRet
    /\ UNCHANGED <<now, reminders, nextId, reminders_count, createVars,
                   deleteVars, recoverVars, delivered, newsVars, chatVars,
                   fnVars>>

OnSendError_retry == "sending"

\* except Exception as e: logger.error(...): send_reminder is over
OnSendError == "idle"

\* await self.bot.send_message(...): delivered, or raises into the except
Deliver(ok) ==
    /\ pcFire = "sending"
    /\ pcFire' = IF ok THEN "sent" ELSE OnSendError
    /\ fireId' = IF ok \/ OnSendError # "idle" THEN fireId ELSE 0
    /\ fireOnce' = IF ok \/ OnSendError # "idle" THEN fireOnce ELSE FALSE
    /\ delivered' = IF ok /\ fireOnce
                     THEN [delivered EXCEPT
                               ![fireId] = IF @ < MaxDelivered THEN @ + 1
                                           ELSE @]
                     ELSE delivered
    /\ ret' = IF ok THEN NoRet ELSE Ret("send", fireId, FALSE, "")
    /\ escaped' = IF ok THEN escaped ELSE Swallowed("TelegramError")
    /\ UNCHANGED <<now, reminders, nextId, reminders_count, jobs, createVars,
                   deleteVars, recoverVars, subscriptionVars, timers,
                   chatVars, fnVars>>

\* "if reminder and not reminder.is_recurring"
IsOneShot(id) == id \in DOMAIN reminders /\ ~reminders[id].is_recurring

Deactivate_keep(rs, id) == rs

\* reminder.is_active = False
Deactivate(rs, id) == [rs EXCEPT ![id].is_active = FALSE]

\* select the reminder; for a one-shot one: is_active = False; commit.
\* (A row deleted between the select and the commit makes the commit raise
\* into the except, which leaves the same state as a missing row.)
SendDeactivate ==
    /\ pcFire = "sent"
    /\ reminders' = IF IsOneShot(fireId) THEN Deactivate(reminders, fireId)
                    ELSE reminders
    /\ pcFire' = IF IsOneShot(fireId) THEN "committed" ELSE "idle"
    /\ fireId' = IF IsOneShot(fireId) THEN fireId ELSE 0
    /\ fireOnce' = IF IsOneShot(fireId) THEN fireOnce ELSE FALSE
    /\ ret' = IF IsOneShot(fireId) THEN NoRet
              ELSE Ret("sent", fireId, FALSE, "")
    /\ UNCHANGED <<now, nextId, reminders_count, jobs, createVars, deleteVars,
                   recoverVars, delivered, newsVars, chatVars, fnVars>>

\* self.scheduler.remove_job(...); a JobLookupError lands in the except
SendRemoveJob ==
    /\ pcFire = "committed"
    /\ jobs' = remove_job(jobs, fireId)
    /\ pcFire' = "idle"
    /\ fireId' = 0
    /\ fireOnce' = FALSE
    /\ ret' = Ret("sent", fireId, TRUE, "")
    /\ UNCHANGED <<now, reminders, nextId, reminders_count, createVars,
                   deleteVars, recoverVars, delivered, newsVars, chatVars,
                   fnVars>>

\* ---- the process stops and starts again: main.startup_event -> start() ----
\* the job store lives in memory and the running coroutines are gone; the
\* tables stay; start() creates the schedule_reminders_from_db task
Restart ==
    /\ jobs' = NoJobs
    /\ pcCreate' = "idle"
    /\ crReminder' = NoReminder
    /\ crCount' = 0
    /\ crPast' = FALSE
    /\ pcDelete' = "idle"
    /\ delId' = 0
    /\ delCount' = 0
    /\ pcRecover' = "load"
    /\ recTodo' = {}
    /\ pcFire' = "idle"
    /\ fireId' = 0
    /\ fireOnce' = FALSE
    /\ ret' = Ret("restart", 0, FALSE, "")
    /\ UNCHANGED <<now, reminders, nextId, reminders_count, delivered,
                   newsVars, chatVars, fnVars>>

Next ==
    \/ Tick
    \/ \E u \in Users, t \in Times, rec \in BOOLEAN : CreateAdd(u, t, rec)
    \/ CreateSchedule
    \/ CreateCommit
    \/ \E id \in Ids : DeleteLookup(id)
    \/ DeleteCommit
    \/ DeleteRemoveJob
    \/ RecoverLoad
    \/ \E r \in recTodo : RecoverStep(r)
    \/ \E j \in BagToSet(jobs) : Fire(j)
    \/ \E ok \in BOOLEAN : Deliver(ok)
    \/ SendDeactivate
    \/ SendRemoveJob
    \/ Restart

Spec == Init /\ [][Next]_vars

\* ---- the reminder engine while the process keeps running ----
\* every step but the stop and start of the process
NextRunning ==
    \/ Tick
    \/ \E u \in Users, t \in Times, rec \in BOOLEAN : CreateAdd(u, t, rec)
    \/ CreateSchedule
    \/ CreateCommit
    \/ \E id \in Ids : DeleteLookup(id)
    \/ DeleteCommit
    \/ DeleteRemoveJob
    \/ RecoverLoad
    \/ \E r \in recTodo : RecoverStep(r)
    \/ \E j \in BagToSet(jobs) : Fire(j)
    \/ \E ok \in BOOLEAN : Deliver(ok)
    \/ SendDeactivate
    \/ SendRemoveJob

\* the job of a one-shot reminder that is due is run
FireOneShot == \E j \in BagToSet(jobs) : ~j.is_recurring /\ Fire(j)

\* time passes; the event loop resumes every coroutine that awaits
\* (create_reminder, delete_reminder, schedule_reminders_from_db,
\* send_reminder), the scheduler runs every due job, and
\* bot.send_message returns or raises. Requests of users (CreateAdd,
\* DeleteLookup) need not come.
Fairness ==
    /\ WF_vars(Tick)
    /\ WF_vars(CreateSchedule)
    /\ WF_vars(CreateCommit)
    /\ WF_vars(DeleteCommit)
    /\ WF_vars(DeleteRemoveJob)
    /\ WF_vars(RecoverLoad)
    /\ WF_vars(\E r \in recTodo : RecoverStep(r))
    /\ SF_vars(FireOneShot)
    /\ WF_vars(\E ok \in BOOLEAN : Deliver(ok))
    /\ WF_vars(SendDeactivate)
    /\ WF_vars(SendRemoveJob)

SpecFair == Init /\ [][NextRunning]_vars /\ Fairness

\* ---- a delete request: handle_message, callback_query_handler ----
\* the Telegram accounts that send updates: the users that own reminders
\* and one more account
Senders == 1..(NumUsers + 1)

\* "/delete_reminder_<id>" or the callback data "delete_reminder_<id>" sent
\* by sender: handle_delete_reminder (or the callback handler) calls
\* scheduler.delete_reminder(reminder_id), which starts with the selects of
\* DeleteLookup; the sender is passed to nothing
HandleDeleteReminder(sender, id) ==
    /\ pcDelete = "idle"
    /\ call' = [fn |-> "handle_delete_reminder", sender |-> sender,
                reminder_id |-> id]
    /\ delId' = IF id \in DOMAIN reminders THEN id ELSE 0
    /\ delCount' = IF id \in DOMAIN reminders
                   THEN reminders_count[reminders[id].user_id] ELSE 0
    /\ pcDelete' = IF id \in DOMAIN reminders THEN "commit" ELSE "idle"
    /\ ret' = IF id \in DOMAIN reminders THEN NoRet
              ELSE Ret("delete", id, FALSE, "")
    /\ UNCHANGED <<now, reminders, nextId, reminders_count, jobs, createVars,
                   recoverVars, fireVars, delivered, newsVars, chatVars,
                   result>>

NextDelete ==
    \/ Tick
    \/ \E u \in Users, t \in Times, rec \in BOOLEAN : CreateAdd(u, t, rec)
    \/ CreateSchedule
    \/ CreateCommit
    \/ \E sender \in Senders, id \in Ids : HandleDeleteReminder(sender, id)
    \/ DeleteCommit
    \/ DeleteRemoveJob

SpecDelete == Init /\ [][NextDelete]_vars

\* ======== news subscriptions ========
reminderVars == <<now, reminders, nextId, reminders_count, jobs, createVars,
                  deleteVars, recoverVars, fireVars, delivered>>

\* the clock advances by a week
NewsTick ==
    /\ utcnow < MaxTime * Week
    /\ utcnow' = utcnow + Week
    /\ ret' = NoRet
    /\ UNCHANGED <<reminderVars, chatVars, fnVars, timers, escaped,
                   subscriptions, nextSubId, subTask, unsubTask, sweepKind,
                   sweepTodo>>

\* ---- subscribe_to_topic ----
\* inserts that are on their way to the table
PendingInserts == Cardinality({p \in SubTasks : subTask[p].pc = "insert"})

\* lines 27-33 and what follows up to the next await. result.scalars()
\* .first() has no ORDER BY: any matching row may be the first. An existing
\* row that needs no change is returned at once; otherwise the object is
\* changed (or built) with next_run computed now, and the commit is awaited.
SubscribeSelect(p, u, topic, f) ==
    /\ subTask[p].pc = "idle"
    /\ IF Matching(u, topic) = {}
       THEN /\ nextSubId + PendingInserts <= MaxSubId
            /\ subTask' = [subTask EXCEPT ![p] =
                 [pc |-> "insert", frequency |-> f, at |-> utcnow,
                  loaded |-> NoSubscription,
                  obj |-> Subscription(0, u, topic, f, NoTime,
                                       calculate_next_run(f, utcnow), TRUE)]]
            /\ ret' = NoRet
       ELSE \E id \in Matching(u, topic) :
              LET existing == subscriptions[id]
              IN  IF NeedsUpdate(existing, f)
                  THEN /\ subTask' = [subTask EXCEPT ![p] =
                            [pc |-> "update", frequency |-> f, at |-> utcnow,
                             loaded |-> existing,
                             obj |-> Resubscribed(existing, f, utcnow)]]
                       /\ ret' = NoRet
                  ELSE /\ subTask' = [subTask EXCEPT ![p] = DoneTask]
                       /\ ret' = Ret("subscribe_same", id, TRUE, f)
    /\ UNCHANGED <<reminderVars, chatVars, fnVars, timers, escaped, utcnow,
                   subscriptions, nextSubId, unsubTask, sweepKind, sweepTodo>>

\* lines 41 and 48: await session.commit(); return existing. The step
\* reports whether the row was still as this call had read it.
SubscribeCommit(p) ==
    /\ subTask[p].pc = "update"
    /\ subscriptions' = Flush(subscriptions, subTask[p].loaded, subTask[p].obj)
    /\ ret' = Ret("subscribe", subTask[p].loaded.id,
                  Undisturbed(subTask[p].loaded),
                  IF subTask[p].loaded.is_active THEN "changed"
                  ELSE "reactivated")
    /\ subTask' = [subTask EXCEPT ![p] = DoneTask]
    /\ UNCHANGED <<reminderVars, chatVars, fnVars, timers, escaped, utcnow,
                   nextSubId, unsubTask, sweepKind, sweepTodo>>

\* lines 62-66: session.add(subscription); commit; refresh; return
SubscribeInsert(p) ==
    /\ subTask[p].pc = "insert"
    /\ subscriptions' = subscriptions @@
         (nextSubId :> [subTask[p].obj EXCEPT !.id = nextSubId])
    /\ nextSubId' = nextSubId + 1
    /\ ret' = NoRet
    /\ subTask' = [subTask EXCEPT ![p] = DoneTask]
    /\ UNCHANGED <<reminderVars, chatVars, fnVars, timers, escaped, utcnow,
                   unsubTask, sweepKind, sweepTodo>>

\* ---- unsubscribe_from_topic ----
\* select(TopicSubscription).where(id == topic_id, user_id == user_id)
Owned(u, id) == id \in DOMAIN subscriptions /\ subscriptions[id].user_id = u

\* lines 75-84: the select; "if not subscription: return False"
UnsubscribeSelect(u, id) ==
    /\ unsubTask.pc = "idle"
    /\ IF Owned(u, id)
       THEN /\ unsubTask' = [pc |-> "commit", loaded |-> subscriptions[id]]
            /\ ret' = NoRet
       ELSE /\ unsubTask' = DoneTask
            /\ ret' = Ret("unsubscribe", id, FALSE,
                          IF id \in DOMAIN subscriptions THEN "other"
                          ELSE "unknown")
    /\ UNCHANGED <<reminderVars, chatVars, fnVars, timers, escaped, utcnow,
                   subscriptions, nextSubId, subTask, sweepKind, sweepTodo>>

\* lines 86-89: subscription.is_active = False; commit; return True
UnsubscribeCommit ==
    /\ unsubTask.pc = "commit"
    /\ subscriptions' = Flush(subscriptions, unsubTask.loaded,
                              [unsubTask.loaded EXCEPT !.is_active = FALSE])
    /\ ret' = Ret("unsubscribe", unsubTask.loaded.id, TRUE,
                  IF unsubTask.loaded.is_active THEN "active"
                  ELSE "inactive")
    /\ unsubTask' = DoneTask
    /\ UNCHANGED <<reminderVars, chatVars, fnVars, timers, escaped, utcnow,
                   nextSubId, subTask, sweepKind, sweepTodo>>

\* ---- the sweeps of news_scheduler.py ----
IsDue_active(row) == row.is_active

\* get_due_subscriptions: is_active == True and next_run <= now
IsDue(row) == row.is_active /\ row.next_run <= utcnow

\* the rows a sweep loads: the due ones, or the active ones of a frequency
SweepRows(kind) ==
    {subscriptions[id] : id \in
        {k \in DOMAIN subscriptions :
            IF kind = "due" THEN IsDue(subscriptions[k])
            ELSE subscriptions[k].is_active
                 /\ subscriptions[k].frequency = kind}}

\* _process_due_subscriptions lines 67-68 and
\* _process_subscriptions_by_frequency lines 108-115
SweepStart(kind) ==
    /\ TimerOf[kind] \in timers
    /\ sweepKind = "idle"
    /\ SweepRows(kind) # {}
    /\ sweepKind' = kind
    /\ sweepTodo' = SweepRows(kind)
    /\ ret' = NoRet
    /\ UNCHANGED <<reminderVars, chatVars, fnVars, timers, escaped, utcnow,
                   subscriptions, nextSubId, subTask, unsubTask>>

\* how process_subscription ends, given what the remote query and the
\* delivery did: "nouser", "nonews", "sendfail" or "ok"
ProcessOutcome(s, remote) ==
    IF ~UserExists(s.user_id) THEN "nouser" ELSE remote

Processed_catchup(s, t) ==
    [s EXCEPT !.last_run = t,
              !.next_run = calculate_next_run(s.frequency, s.next_run)]

\* lines 155-156: the object after a delivery at instant t
Processed(s, t) ==
    [s EXCEPT !.last_run = t,
              !.next_run = calculate_next_run(s.frequency, t)]

ProcessWrite_always(s, outcome) == Processed(s, utcnow)

\* the object process_subscription commits: changed after a delivery only
ProcessWrite(s, outcome) == IF outcome = "ok" THEN Processed(s, utcnow) ELSE s

\* one pass of the loop: process_subscription(session, subscription, bot)
\* from the user select to the commit; every failure returns False. The
\* step reports whether the row was still as the sweep had read it.
SweepProcess(s, remote) ==
    /\ sweepKind # "idle"
    /\ s \in sweepTodo
    /\ subscriptions' =
         Flush(subscriptions, s, ProcessWrite(s, ProcessOutcome(s, remote)))
    /\ ret' = Ret("process", s.id, Undisturbed(s), ProcessOutcome(s, remote))
    /\ escaped' = IF ProcessOutcome(s, remote) = "sendfail"
                  THEN Swallowed("TelegramError") ELSE escaped
    /\ sweepTodo' = sweepTodo \ {s}
    /\ sweepKind' = IF sweepTodo = {s} THEN "idle" ELSE sweepKind
    /\ UNCHANGED <<reminderVars, chatVars, fnVars, timers, utcnow, nextSubId,
                   subTask, unsubTask>>

\* the process starts on a table that holds what earlier runs left
InitNews ==
    /\ ReminderInit
    /\ ChatInit
    /\ FnInit
    /\ utcnow = 0
    /\ subscriptions \in StoredRows
    /\ nextSubId = Len(subscriptions) + 1
    /\ subTask = [p \in SubTasks |-> IdleTask]
    /\ unsubTask = IdleTask
    /\ sweepKind = "idle"
    /\ sweepTodo = {}
    /\ timers = NewsTimers
    /\ escaped = ""

\* the calls made by webhook updates
NextNews ==
    \/ NewsTick
    \/ \E p \in SubTasks, u \in Users, topic \in Topics, f \in Frequencies :
          SubscribeSelect(p, u, topic, f)
    \/ \E p \in SubTasks : SubscribeCommit(p)
    \/ \E p \in SubTasks : SubscribeInsert(p)
    \/ \E u \in Users, id \in SubIds : UnsubscribeSelect(u, id)
    \/ UnsubscribeCommit

SpecNews == InitNews /\ [][NextNews]_vars

\* the sweeps of the news scheduler, with one subscribe call and one
\* unsubscribe call beside them
NextSweep ==
    \/ NewsTick
    \/ \E u \in Users, topic \in Topics, f \in Frequencies :
          SubscribeSelect("s1", u, topic, f)
    \/ SubscribeCommit("s1")
    \/ SubscribeInsert("s1")
    \/ \E u \in Users, id \in SubIds : UnsubscribeSelect(u, id)
    \/ UnsubscribeCommit
    \/ \E kind \in {"due"} \cup Frequencies : SweepStart(kind)
    \/ \E s \in sweepTodo, remote \in {"nonews", "sendfail", "ok"} :
          SweepProcess(s, remote)

SpecSweep == InitNews /\ [][NextSweep]_vars


\* ======== conversation memory ========
\* ---- handle_regular_message ----
\* lines 867-893: the session loads the user, get_conversation_history(user)
\* is formatted and ask_question sends its messages
MsgStart ==
    /\ pcMsg = "idle"
    /\ turn < MaxTurns
    /\ turn' = turn + 1
    /\ userHistory' = conversation_history
    /\ messages' = ask_question(turn + 1,
                       get_conversation_history(conversation_history))
    /\ pcMsg' = "asked"
    /\ UNCHANGED <<reminderVars, newsVars, fnVars, ret, conversation_history>>

\* lines 959-973 and 994: the response has success false; nothing of the
\* history was changed and the commit writes nothing
MsgError ==
    /\ pcMsg = "asked"
    /\ pcMsg' = "idle"
    /\ userHistory' = << >>
    /\ UNCHANGED <<reminderVars, newsVars, fnVars, ret, conversation_history,
                   turn, messages>>

\* lines 905-906, then a reply_text that raises, lines 974-994: the except
\* reports the error and the commit writes the history with the user entry
MsgReplyRaises ==
    /\ pcMsg = "asked"
    /\ conversation_history' =
         update_conversation_history(userHistory, "user", turn)
    /\ pcMsg' = "idle"
    /\ userHistory' = << >>
    /\ UNCHANGED <<reminderVars, newsVars, fnVars, ret, turn, messages>>

\* lines 905-956: update_conversation_history(user, "user", text), the
\* replies are sent, and the commit of save_message writes the user object
MsgReplied ==
    /\ pcMsg = "asked"
    /\ userHistory' = update_conversation_history(userHistory, "user", turn)
    /\ conversation_history' =
         update_conversation_history(userHistory, "user", turn)
    /\ pcMsg' = "saved"
    /\ UNCHANGED <<reminderVars, newsVars, fnVars, ret, turn, messages>>

\* lines 958 and 994: update_conversation_history(user, "assistant",
\* answer); session.commit()
MsgFinish ==
    /\ pcMsg = "saved"
    /\ conversation_history' =
         update_conversation_history(userHistory, "assistant", turn)
    /\ pcMsg' = "idle"
    /\ userHistory' = << >>
    /\ UNCHANGED <<reminderVars, newsVars, fnVars, ret, turn, messages>>

\* clear_command lines 148-154: user.conversation_history = "[]"; commit
ClearHistory ==
    /\ conversation_history # << >>
    /\ conversation_history' = << >>
    /\ UNCHANGED <<reminderVars, newsVars, fnVars, ret, turn, pcMsg,
                   userHistory, messages>>

NextChat ==
    \/ MsgStart
    \/ MsgError
    \/ MsgReplyRaises
    \/ MsgReplied
    \/ MsgFinish
    \/ ClearHistory

SpecChat == Init /\ [][NextChat]_vars

\* ---- get_conversation_history on stored histories ----
Roles == {"user", "assistant"}

\* the stored history with the roles rs; an entry's content is its position
Stored(rs) == [i \in 1..Len(rs) |-> Entry(rs[i], i)]

AnyHistories ==
    UNION {{Stored(rs) : rs \in [1..n -> Roles]} : n \in 0..MaxLen}

\* a call of get_conversation_history is about to be made for a user whose
\* stored history is any of AnyHistories
InitFormat ==
    /\ ReminderInit
    /\ NewsInit
    /\ ChatInit
    /\ call \in {[fn |-> "pending", history |-> h] : h \in AnyHistories}
    /\ result = << >>

FormatHistory ==
    /\ call.fn = "pending"
    /\ call' = [call EXCEPT !.fn = "get_conversation_history"]
    /\ result' = get_conversation_history(call.history)
    /\ UNCHANGED <<reminderVars, newsVars, chatVars, ret>>

NextFormat == FormatHistory

SpecFormat == InitFormat /\ [][NextFormat]_vars

\* ---- update_conversation_history and /clear on a stored history ----
OtherRole(role) == IF role = "user" THEN "assistant" ELSE "user"

\* the history of n entries that starts with the role first and alternates
Alternating(n, first) ==
    [i \in 1..n |-> Entry(IF i % 2 = 1 THEN first ELSE OtherRole(first), i)]

\* what updates from the empty history leave in the store
UpdatedHistories ==
    {Alternating(n, first) : n \in 0..HistoryCap, first \in Roles}

InitUpdate ==
    /\ ReminderInit
    /\ NewsInit
    /\ FnInit
    /\ conversation_history \in UpdatedHistories
    /\ turn = 0
    /\ pcMsg = "idle"
    /\ userHistory = << >>
    /\ messages = << >>

\* update_conversation_history(user, role, content) and the commit of the
\* session; the content is a text not yet in the history
UpdateHistory(role) ==
    /\ pcMsg = "idle"
    /\ turn < MaxTurns
    /\ turn' = turn + 1
    /\ call' = [fn |-> "update_conversation_history",
                history |-> conversation_history, role |-> role,
                content |-> HistoryCap + turn + 1]
    /\ result' = update_conversation_history(conversation_history, role,
                                             HistoryCap + turn + 1)
    /\ conversation_history' = result'
    /\ UNCHANGED <<reminderVars, newsVars, ret, pcMsg, userHistory, messages>>

NextUpdate ==
    \/ \E role \in Roles : UpdateHistory(role)
    \/ ClearHistory

SpecUpdate == InitUpdate /\ [][NextUpdate]_vars

\* ---- handle_reminder_request: the two parsers on a text ----
TextHours == (0..13) \cup {23, 25}
TextMinutes == {0, 30, 60}
AmPm == {"", "am", "pm"}

Clocks ==
    {[hour |-> h, minute |-> mi, ampm |-> ap] :
        h \in TextHours, mi \in TextMinutes, ap \in AmPm}

TextDate(d, mo, y, digits) ==
    [day |-> d, month |-> mo, year |-> y, digits |-> digits]

TextDates ==
    {TextDate(15, 6, 2025, 4), TextDate(15, 6, 25, 2),
     TextDate(29, 2, 2024, 4), TextDate(29, 2, 2025, 4),
     TextDate(32, 1, 2025, 4), TextDate(5, 13, 2025, 4),
     TextDate(0, 5, 2025, 4)}

Units == {"seconds", "minutes", "hours", "days", "weeks"}

Rels == {[n |-> n, unit |-> u] : n \in 0..MaxN, u \in Units}

Words == {"tomorrow", "today", "next week", "next month"}

Everys ==
    {[kind |-> "day", day_of_week |-> "", day |-> -1]}
      \cup {[kind |-> "week", day_of_week |-> w, day |-> -1] :
               w \in DOMAIN DOW_MAP}
      \cup {[kind |-> "month", day_of_week |-> "", day |-> d] :
               d \in {0, 1, 15, 28, 31}}

\* the clock clauses of the texts that hold clauses of several forms
FewClocks ==
    {[hour |-> 9, minute |-> 0, ampm |-> ""],
     [hour |-> 23, minute |-> 30, ampm |-> ""],
     [hour |-> 9, minute |-> 30, ampm |-> "pm"],
     [hour |-> 12, minute |-> 0, ampm |-> "am"]}

\* texts in which re.search finds the clauses of several forms: a
\* recurrence or a time with a relative duration or a word beside it
MixedTexts ==
    {Text(e, NoDate, c, r, w) :
        e \in Everys, c \in FewClocks,
        r \in {NoRel, [n |-> 1, unit |-> "hours"]}, w \in {"", "tomorrow"}}
      \cup {Text(NoEvery, d, c, r, w) :
               d \in {NoDate, TextDate(15, 6, 2025, 4)},
               c \in FewClocks \cup {NoClock},
               r \in Rels \cup {NoRel}, w \in Words \cup {""}}

\* a text with one of the recognized forms, with none, or with several
Texts ==
    {Text(e, NoDate, c, NoRel, "") : e \in Everys, c \in Clocks}
      \cup {Text(NoEvery, d, c, NoRel, "") :
               d \in TextDates \cup {NoDate}, c \in Clocks}
      \cup {Text(NoEvery, NoDate, NoClock, r, "") : r \in Rels}
      \cup {Text(NoEvery, NoDate, NoClock, NoRel, w) : w \in Words \cup {""}}
      \cup MixedTexts

\* 28 December 2024, a Saturday
FirstDay == DateTime(2024, 12, 28, 0, 0, 0)

Nows ==
    {[timedelta_add(FirstDay, d, 0) EXCEPT
         !.hour = h, !.minute = mi, !.second = sec] :
        d \in 0..(NowDays - 1), h \in {0, 9, 23}, mi \in {0, 30},
        sec \in {0, 30}}

\* a reminder request with the text call.text arrives at the instant call.now
InitParse ==
    /\ ReminderInit
    /\ NewsInit
    /\ ChatInit
    /\ call \in {[fn |-> "pending", text |-> t, now |-> n] :
                    t \in Texts, n \in Nows}
    /\ result = << >>

\* lines 618-651: parse_recurrence_pattern(text); when it gives no rule,
\* parse_reminder_time(text)
HandleReminderRequest ==
    /\ call.fn = "pending"
    /\ LET recurrence == parse_recurrence_pattern(call.text, call.now)
       IN  IF \/ recurrence.raised # ""
              \/ recurrence.cron # NoCron /\ recurrence.time # NoDateTime
           THEN /\ call' = [call EXCEPT !.fn = "parse_recurrence_pattern"]
                /\ result' = recurrence
           ELSE /\ call' = [call EXCEPT !.fn = "parse_reminder_time"]
                /\ result' = parse_reminder_time(call.text, call.now)
    /\ UNCHANGED <<reminderVars, newsVars, chatVars, ret>>

NextParse == HandleReminderRequest

SpecParse == InitParse /\ [][NextParse]_vars

\* ---- PerplexityAPI.ask_question: the remote call ----
\* how client.post and the reading of its response can end: a response with
\* status 200 and a content, httpx.TimeoutException, httpx.ConnectError, a
\* status other than 200, a body that is not JSON, a body without choices
RemoteOutcomes ==
    {"ok", "timeout", "connect_error", "status", "bad_json", "no_choices"}

\* the exception that the body of the try raises, "" when it raises none
RaisedInTry(remote) ==
    CASE remote = "timeout" -> "httpx.TimeoutException"
      [] remote = "connect_error" -> "httpx.ConnectError"
      [] remote = "bad_json" -> "ValueError"
      [] remote = "no_choices" -> "KeyError"
      [] OTHER -> ""

\* httpx.TimeoutException and httpx.ConnectError are httpx.RequestError
IsRequestError(exc) ==
    exc \in {"httpx.TimeoutException", "httpx.ConnectError"}

Answer(success, error, answer) ==
    [raised |-> "", success |-> success, error |-> error, answer |-> answer]

Caught_request_only(exc) ==
    IF IsRequestError(exc) THEN Answer(FALSE, "Request error", 0)
    ELSE [raised |-> exc, success |-> FALSE, error |-> "", answer |-> 0]

\* lines 338-349: except httpx.RequestError, except Exception
Caught(exc) ==
    IF IsRequestError(exc) THEN Answer(FALSE, "Request error", 0)
    ELSE Answer(FALSE, "Unexpected error", 0)

\* ---- the content of an answer (lines 195-336) ----
\* a content is a sequence of tokens: the two thinking delimiters, a
\* whitespace character, two other characters, the assistant tag that the
\* clean-up removes and the marker of the first fallback pattern
Tokens ==
    {"<think>", "</think>", " ", "a", "b", "<|Assistant|>", "Answer:"}

Contents == UNION {[1..n -> Tokens] : n \in 0..MaxContent}

\* the configured models: show_thinking switches sonar-pro and sonar to
\* their reasoning variant and leaves any other model as it is (lines 59-65)
Models == {"sonar-pro", "sonar-deep-research"}

IsReasoning(model, show_thinking) ==
    show_thinking /\ model \in {"sonar-pro", "sonar"}

strip_left(s) ==
    LET kept == {i \in 1..Len(s) : s[i] # " "}
    IN  IF kept = {} THEN << >>
        ELSE SubSeq(s, CHOOSE i \in kept : \A k \in kept : i <= k, Len(s))

\* str.strip(): leading and trailing whitespace removed
strip(s) ==
    LET kept == {i \in 1..Len(s) : s[i] # " "}
    IN  IF kept = {} THEN << >>
        ELSE SubSeq(s, CHOOSE i \in kept : \A k \in kept : i <= k,
                       CHOOSE j \in kept : \A k \in kept : j >= k)

\* str.find(token): the first position of the token, counted from 1;
\* 0 when the content does not hold it
find(s, token) ==
    LET at == {i \in 1..Len(s) : s[i] = token}
    IN  IF at = {} THEN 0 ELSE CHOOSE i \in at : \A k \in at : i <= k

\* content[from:to] of Python with positions counted from 1, to included
Slice(s, from, to) ==
    IF from > to THEN << >> ELSE SubSeq(s, from, to)

\* line 203: re.sub('^(<|Assistant|>)', '', content).strip()
clean(content) ==
    strip(IF content # << >> /\ content[1] = "<|Assistant|>"
          THEN Tail(content) ELSE content)

Thought(thinking, answer) ==
    [raised |-> "", success |-> TRUE, error |-> "", answer |-> answer,
     thinking |-> thinking]

\* lines 209-224: both delimiters are in the content
extract_think(content) ==
    LET think_start == find(content, "<think>")
        think_end == find(content, "</think>")
    IN  Thought(strip(Slice(content, think_start + 1, think_end - 1)),
                strip(Slice(content, think_end + 1, Len(content))))

\* lines 225-327: the fallbacks of a reasoning model for a content without
\* both delimiters. The first splits the content at the answer marker; the
\* others look for words, rules, numbered items and blank lines, which no
\* content of Contents holds, and find nothing.
extract_fallback(content) ==
    LET at == find(content, "Answer:")
    IN  IF at # 0
        THEN Thought(strip(Slice(content, 1, at - 1)),
                     strip(Slice(content, at + 1, Len(content))))
        ELSE Answer(TRUE, "", content)

\* lines 195-336: what a response of status 200 with this content gives
Extracted(content, model, show_thinking) ==
    LET cleaned == clean(content)
    IN  IF ~show_thinking THEN Answer(TRUE, "", cleaned)
        ELSE IF /\ find(cleaned, "<think>") # 0
                /\ find(cleaned, "</think>") # 0
        THEN extract_think(cleaned)
        ELSE IF IsReasoning(model, show_thinking)
        THEN extract_fallback(cleaned)
        ELSE Answer(TRUE, "", cleaned)

\* lines 153-336: what is returned when the remote call ends with remote,
\* content being the content of the answer of a response of status 200
Responded(remote, content, model, show_thinking) ==
    IF RaisedInTry(remote) # "" THEN Caught(RaisedInTry(remote))
    ELSE IF remote = "status" THEN Answer(FALSE, "API Error", 0)
    ELSE Extracted(content, model, show_thinking)

\* the calls whose remote call fails, made with what
\* get_conversation_history gave for a stored history
FailedAsks ==
    {[fn |-> "pending", query |-> q,
      history |-> get_conversation_history(h), remote |-> r,
      model |-> "sonar-pro", show_thinking |-> FALSE, content |-> << >>] :
        q \in 1..MaxTurns, h \in UpdatedHistories,
        r \in RemoteOutcomes \ {"ok"}}

\* the calls that are answered, first of a conversation, with or without
\* thinking mode
AnsweredAsks ==
    {[fn |-> "pending", query |-> q,
      history |-> get_conversation_history(<< >>), remote |-> "ok",
      model |-> m, show_thinking |-> t, content |-> c] :
        q \in 1..MaxTurns, m \in Models, t \in BOOLEAN, c \in Contents}

\* ask_question(query, conversation_history, show_thinking) is about to be
\* called
InitAsk ==
    /\ ReminderInit
    /\ NewsInit
    /\ ChatInit
    /\ call \in FailedAsks \cup AnsweredAsks
    /\ result = << >>

\* ask_question: the messages are built and sent, and the outcome of the
\* remote call is turned into the returned value
AskQuestion ==
    /\ call.fn = "pending"
    /\ call' = [call EXCEPT !.fn = "ask_question"]
    /\ messages' = ask_question(call.query, call.history)
    /\ result' = Responded(call.remote, call.content, call.model,
                           call.show_thinking)
    /\ UNCHANGED <<reminderVars, newsVars, ret, conversation_history, turn,
                   pcMsg, userHistory>>

NextAsk == AskQuestion

SpecAsk == InitAsk /\ [][NextAsk]_vars

\* ======== the scheduled jobs of both schedulers ========
\* the reminders table after MaxId creates of reminders that are not past
ArmedReminders ==
    {[id \in 1..MaxId |-> Reminder(id, us[id], ts[id], recs[id], TRUE)] :
        us \in [1..MaxId -> Users], ts \in [1..MaxId -> Times],
        recs \in [1..MaxId -> BOOLEAN]}

\* the process runs, schedule_reminders_from_db is over: every stored
\* reminder is armed; the news scheduler has its four interval jobs
InitJobs ==
    /\ ChatInit
    /\ FnInit
    /\ now = 0
    /\ reminders \in ArmedReminders
    /\ nextId = MaxId + 1
    /\ reminders_count =
         [u \in Users |->
            Cardinality({id \in 1..MaxId : reminders[id].user_id = u})]
    /\ jobs = SetToBag({Job(reminders[id]) : id \in 1..MaxId})
    /\ pcCreate = "idle"
    /\ crReminder = NoReminder
    /\ crCount = 0
    /\ crPast = FALSE
    /\ pcDelete = "idle"
    /\ delId = 0
    /\ delCount = 0
    /\ pcRecover = "done"
    /\ recTodo = {}
    /\ pcFire = "idle"
    /\ fireId = 0
    /\ fireOnce = FALSE
    /\ delivered = [id \in Ids |-> 0]
    /\ ret = NoRet
    /\ utcnow = 0
    /\ subscriptions \in StoredRows
    /\ nextSubId = Len(subscriptions) + 1
    /\ subTask = [p \in SubTasks |-> IdleTask]
    /\ unsubTask = IdleTask
    /\ sweepKind = "idle"
    /\ sweepTodo = {}
    /\ timers = NewsTimers
    /\ escaped = ""

\* news_scheduler.py lines 66-68, 76-77 and 81-85: the select of a sweep
\* raises (the database cannot be reached); the except of the job logs it
SweepFails(kind) ==
    /\ TimerOf[kind] \in timers
    /\ sweepKind = "idle"
    /\ escaped' = Swallowed("SQLAlchemyError")
    /\ ret' = Ret("sweep", 0, FALSE, kind)
    /\ UNCHANGED <<reminderVars, chatVars, fnVars, timers, subscriptionVars>>

NextJobs ==
    \/ Tick
    \/ \E j \in BagToSet(jobs) : Fire(j)
    \/ \E ok \in BOOLEAN : Deliver(ok)
    \/ SendDeactivate
    \/ SendRemoveJob
    \/ NewsTick
    \/ \E kind \in {"due"} \cup Frequencies : SweepStart(kind)
    \/ \E kind \in {"due"} \cup Frequencies : SweepFails(kind)
    \/ \E s \in sweepTodo, remote \in {"nonews", "sendfail", "ok"} :
          SweepProcess(s, remote)

SpecJobs == InitJobs /\ [][NextJobs]_vars

\* ---- properties ----
\* no coroutine of the engine is in progress
Quiescent ==
    /\ pcCreate = "idle"
    /\ pcDelete = "idle"
    /\ pcRecover = "done"
    /\ pcFire = "idle"

\* C1: in every reachable state the job store holds at most one trigger per
\* reminder id; arming an id that already has a trigger replaces it.
C1_AtMostOneTrigger == \A id \in Ids : JobCount(jobs, id) <= 1

\* schedule_reminder has just armed an id that already had a trigger
C1_Witness == ret.op = "armed" /\ ret.val /\ JobCount(jobs, ret.id) = 1

\* C2: every reminder whose is_active flag is true in the store has exactly
\* one live trigger, after any sequence of create, fire (delivered or not),
\* delete and recover (read at the states where no operation is in progress).
C2_ActiveHasOneTrigger ==
    Quiescent =>
        \A id \in DOMAIN reminders :
            reminders[id].is_active => JobCount(jobs, id) = 1

\* C3: no live trigger refers to a reminder that is absent from the store,
\* except while the delete that removed the row is about to remove the job.
C3_NoOrphanTrigger ==
    \A id \in Ids :
        (HasJob(jobs, id) /\ id \notin DOMAIN reminders) =>
            (pcDelete = "unjob" /\ delId = id)

\* C4: in the state in which delete returns true there is no row and no
\* trigger for that id.
C4_DeleteCancels ==
    (ret.op = "delete" /\ ret.val) =>
        (ret.id \notin DOMAIN reminders /\ ~HasJob(jobs, ret.id))

\* delete has just returned true after removing a job that was in the store
C4_Witness == ret.op = "delete" /\ ret.val /\ ret.note = "job"

\* C5: a delete that finds the row returns true and the row is gone; a delete
\* of an id whose row is gone (deleted before, or never there) returns false
\* and changes neither the tables nor the job store; a deleted id stays
\* deleted, so a second delete of it is of the second kind.
C5_DeleteTwice ==
    [][ /\ (ret'.op = "delete" /\ ~ret'.val) =>
              /\ ret'.id \notin DOMAIN reminders
              /\ reminders' = reminders
              /\ jobs' = jobs
              /\ reminders_count' = reminders_count
        /\ (ret'.op = "delete" /\ ret'.val) =>
              /\ pcDelete = "unjob"
              /\ ret'.id = delId
              /\ delId \notin DOMAIN reminders'
        /\ \A id \in Ids :
              (id < nextId /\ id \notin DOMAIN reminders) =>
                  id \notin DOMAIN reminders' ]_vars

\* delete has just returned false for an id that was in the store before
C5_Witness == ret.op = "delete" /\ ~ret.val /\ ret.id < nextId

\* C6: a create called with is_recurring = false and scheduled_at before the
\* current instant never has a trigger installed for its reminder, and when
\* it returns the row is in the store with is_active = false.
C6_PastNotArmed ==
    /\ crPast => ~HasJob(jobs, crReminder.id)
    /\ (ret.op = "create" /\ ret.val) =>
          /\ ret.id \in DOMAIN reminders
          /\ ~reminders[ret.id].is_active
          /\ ~HasJob(jobs, ret.id)

\* create has just returned for a one-shot reminder in the past
C6_Witness == ret.op = "create" /\ ret.val

\* C7: when send_reminder of a one-shot reminder ends after a successful
\* delivery, the reminder (if still stored) has is_active = false and the
\* job store has no trigger for it.
C7_OneShotDone ==
    (ret.op = "sent" /\ ret.val) =>
        /\ ~HasJob(jobs, ret.id)
        /\ ret.id \in DOMAIN reminders => ~reminders[ret.id].is_active

\* send_reminder has just ended for a delivered, still stored one-shot reminder
C7_Witness == ret.op = "sent" /\ ret.val /\ ret.id \in DOMAIN reminders

\* C8: a failed delivery ends send_reminder without a raise and without
\* another send, and leaves the reminders table and the job store unchanged.
C8_FailedDelivery ==
    [][ (ret'.op = "send" /\ ~ret'.val) =>
            /\ pcFire' = "idle"
            /\ reminders' = reminders
            /\ jobs' = jobs ]_vars

\* a delivery has just failed for a reminder that is in the store
C8_Witness == ret.op = "send" /\ ~ret.val /\ ret.id \in DOMAIN reminders

\* C9: a stored recurring reminder is always active, and while the process
\* runs no step other than its delete takes its single trigger away: fires,
\* delivered or not, leave it active with exactly one trigger.
C9_RecurringStays ==
    /\ [](\A id \in DOMAIN reminders :
             reminders[id].is_recurring => reminders[id].is_active)
    /\ [][ \A id \in Ids :
             ( /\ id \in DOMAIN reminders
               /\ reminders[id].is_recurring
               /\ JobCount(jobs, id) = 1
               /\ id \in DOMAIN reminders'
               /\ ret'.op # "restart" ) =>
                 (reminders'[id].is_active /\ JobCount(jobs', id) = 1) ]_vars

\* a fire of a recurring reminder has just ended (delivered or not) and the
\* reminder is active with its one trigger
C9_Witness ==
    /\ ret.op \in {"send", "sent"}
    /\ ret.id \in DOMAIN reminders
    /\ reminders[ret.id].is_recurring
    /\ reminders[ret.id].is_active
    /\ JobCount(jobs, ret.id) = 1

C11_RecoverDeactivates ==
    (ret.op = "past" /\ ret.note = "recover"
       /\ ret.id \in DOMAIN reminders) =>
        /\ ~reminders[ret.id].is_active
        /\ ~HasJob(jobs, ret.id)

\* C12: the text of a one-shot reminder is delivered at most once, under
\* every interleaving of create, recover, fire and delete and across
\* restarts.
C12_DeliveredOnce == \A id \in Ids : delivered[id] <= 1

\* a one-shot reminder's text was delivered, the process restarted before
\* send_reminder wrote is_active = false, and the recovery pass has just
\* handled the still active row
C12_Witness ==
    /\ ret.op = "past"
    /\ ret.note = "recover"
    /\ delivered[ret.id] = 1
    /\ ret.id \in DOMAIN reminders
    /\ reminders[ret.id].is_active

\* number of a user's stored reminders with is_active = true
ActiveCount(u) ==
    Cardinality({id \in DOMAIN reminders :
                    reminders[id].user_id = u /\ reminders[id].is_active})

\* C13: whenever no operation is in progress, reminders_count of every user
\* equals the number of that user's active reminders in the store.
C13_CountIsActive ==
    Quiescent => \A u \in Users : reminders_count[u] = ActiveCount(u)

\* C14: the topic_subscriptions table never holds two rows with the same
\* user and the same topic.
C14_UniquePair ==
    \A i \in DOMAIN subscriptions, j \in DOMAIN subscriptions :
        (i # j) =>
            ~(subscriptions[i].user_id = subscriptions[j].user_id
                /\ subscriptions[i].topic = subscriptions[j].topic)

\* C15: a subscribe call that found its (user, topic) row inactive, or
\* active with another frequency, and whose row is still as the call read
\* it when its commit lands, leaves the row active, with the requested
\* frequency and next_run = instant of the call + one hour, one day or one
\* week; and a call never returns without that update unless the row it
\* found is active with the requested frequency.
C15_Resubscribe ==
    [][ /\ \A p \in SubTasks :
             ( /\ subTask[p].pc = "update"
               /\ subTask'[p].pc = "done"
               /\ Undisturbed(subTask[p].loaded) ) =>
                 LET f == subTask[p].frequency
                     r == subscriptions'[subTask[p].loaded.id]
                 IN  /\ r.is_active
                     /\ r.frequency = f
                     /\ r.next_run = subTask[p].at +
                          (IF f = "hourly" THEN Hour
                           ELSE IF f = "daily" THEN Day ELSE Week)
        /\ \A p \in SubTasks :
             (subTask[p].pc = "idle" /\ subTask'[p].pc = "update") =>
                 subTask'[p].at = utcnow
        /\ (ret'.op = "subscribe_same") =>
              /\ subscriptions[ret'.id].is_active
              /\ subscriptions[ret'.id].frequency = ret'.note ]_vars

\* a subscribe call has just reactivated the row it had found inactive, at
\* an instant later than the one at which the row was made
C15_Witness ==
    /\ ret.op = "subscribe"
    /\ ret.note = "reactivated"
    /\ ret.val
    /\ utcnow > 0
    /\ subscriptions[ret.id].is_active
    /\ subscriptions[ret.id].next_run > utcnow

\* C16: a subscribe call that finds its (user, topic) row active with the
\* requested frequency returns without changing any row and without adding
\* one; only a call that found an inactive row or another frequency goes on
\* to write, and only a call that found no row inserts.
C16_SameIsNoop ==
    [][ /\ (ret'.op = "subscribe_same") =>
              /\ subscriptions' = subscriptions
              /\ nextSubId' = nextSubId
        /\ \A p \in SubTasks :
             (subTask[p].pc = "idle" /\ subTask'[p].pc = "update") =>
                 \/ ~subTask'[p].loaded.is_active
                 \/ subTask'[p].loaded.frequency # subTask'[p].frequency
        /\ \A p \in SubTasks :
             (subTask[p].pc = "idle" /\ subTask'[p].pc = "insert") =>
                 Matching(subTask'[p].obj.user_id, subTask'[p].obj.topic)
                     = {} ]_vars

\* a subscribe call has just returned for a row that was active with the
\* requested frequency, at an instant later than the one the row was made at
C16_Witness ==
    /\ ret.op = "subscribe_same"
    /\ utcnow > 0
    /\ subscriptions[ret.id].frequency = ret.note
    /\ subscriptions[ret.id].next_run < utcnow + Period(ret.note)

\* C17: unsubscribe returns true exactly when the row with that id owned by
\* that user was active, and the row is then stored inactive.
C17_UnsubscribeResult ==
    (ret.op = "unsubscribe") =>
        /\ ret.val <=> (ret.note = "active")
        /\ ret.val =>
              /\ ret.id \in DOMAIN subscriptions
              /\ ~subscriptions[ret.id].is_active

\* C18: a delivered process of a subscription at instant t, on a row that
\* is still as the sweep read it, stores last_run = t and next_run = t + one
\* hour, one day or one week by the row's frequency, whatever next_run was.
C18_NextRunFromNow ==
    (ret.op = "process" /\ ret.note = "ok" /\ ret.val) =>
        LET r == subscriptions[ret.id]
        IN  /\ r.last_run = utcnow
            /\ r.next_run = utcnow +
                 (IF r.frequency = "hourly" THEN Hour
                  ELSE IF r.frequency = "daily" THEN Day ELSE Week)

\* an hourly subscription has just been processed a week after instant 0
C18_Witness ==
    /\ ret.op = "process"
    /\ ret.note = "ok"
    /\ ret.val
    /\ utcnow = Week
    /\ subscriptions[ret.id].frequency = "hourly"
    /\ subscriptions[ret.id].next_run = Week + Hour

\* C19: a process of a subscription that fails (no owner, remote query
\* unsuccessful, delivery raised) changes no row, so a row that was due is
\* still due, and the sweep goes on with the rows it has left.
C19_FailureKeepsDue ==
    [][ (ret'.op = "process" /\ ret'.note # "ok") =>
            /\ subscriptions' = subscriptions
            /\ IsDue(subscriptions[ret'.id]) =>
                  /\ subscriptions'[ret'.id].is_active
                  /\ subscriptions'[ret'.id].next_run <= utcnow'
            /\ \E s \in sweepTodo :
                  s.id = ret'.id /\ sweepTodo' = sweepTodo \ {s}
            /\ sweepTodo' # {} => sweepKind' = sweepKind ]_vars

\* the process of a due subscription has just failed and the sweep has
\* another row to go on with
C19_Witness ==
    /\ ret.op = "process"
    /\ ret.note \in {"nonews", "sendfail"}
    /\ IsDue(subscriptions[ret.id])
    /\ sweepKind = "due"
    /\ sweepTodo # {}

\* C20: every message sequence ask_question sends starts with exactly one
\* system entry, which is followed by user and assistant entries of which no
\* two consecutive ones have the same role.
C20_SentAlternates ==
    (messages # << >>) =>
        /\ messages[1].role = "system"
        /\ \A i \in 2..Len(messages) :
              messages[i].role \in {"user", "assistant"}
        /\ \A i \in 2..(Len(messages) - 1) :
              messages[i].role # messages[i + 1].role

\* C21: whatever the stored history, what get_conversation_history returns
\* begins with a system entry, has no other system entry, and no two
\* consecutive entries of it have the same role.
C21_FormattedAlternates ==
    (call.fn = "get_conversation_history") =>
        /\ result # << >>
        /\ result[1].role = "system"
        /\ \A i \in 2..Len(result) : result[i].role \in Roles
        /\ \A i \in 1..(Len(result) - 1) :
              result[i].role # result[i + 1].role

\* a stored history longer than the window, with three user entries more
\* than assistant entries in the window, was formatted
C21_Witness ==
    /\ call.fn = "get_conversation_history"
    /\ Len(call.history) > HistoryLimit
    /\ Len(OfRole(LastN(call.history, HistoryLimit), "user")) >=
         Len(OfRole(LastN(call.history, HistoryLimit), "assistant")) + 3
    /\ Len(result) >= 4
    /\ result[Len(result)].role = "user"

\* C22: an update whose role is the role of the last entry replaces the
\* content of that entry and leaves the number of entries as it was; and the
\* stored history, built by updates from the empty one, never has two
\* adjacent entries of the same role.
C22_SameRoleReplaces ==
    /\ (/\ call.fn = "update_conversation_history"
        /\ call.history # << >>
        /\ call.history[Len(call.history)].role = call.role)
         => /\ Len(result) = Len(call.history)
            /\ result = [call.history EXCEPT
                           ![Len(call.history)].content = call.content]
    /\ \A i \in 1..(Len(conversation_history) - 1) :
          conversation_history[i].role # conversation_history[i + 1].role

\* an update with the role of the last entry was made and its result is
\* what the store holds
C22_Witness ==
    /\ call.fn = "update_conversation_history"
    /\ Len(call.history) >= 2
    /\ call.history[Len(call.history)].role = call.role
    /\ conversation_history = result
    /\ result[Len(result)].content = call.content
    /\ result[Len(result)].content # call.history[Len(result)].content

\* C23: after any updates and clears the stored history has at most 20
\* entries, and an update that appends to a history of 20 entries drops the
\* oldest entry: the result is the former entries 2..20 and the new entry.
C23_CappedOldestDropped ==
    /\ Len(conversation_history) <= HistoryCap
    /\ (/\ call.fn = "update_conversation_history"
        /\ Len(call.history) = HistoryCap
        /\ call.history[HistoryCap].role # call.role)
         => result = Tail(call.history) \o <<Entry(call.role, call.content)>>

\* an entry was appended to a stored history of 20 entries
C23_Witness ==
    /\ call.fn = "update_conversation_history"
    /\ Len(call.history) = HistoryCap
    /\ call.history[HistoryCap].role # call.role
    /\ conversation_history = result
    /\ Len(conversation_history) = HistoryCap
    /\ conversation_history[1] = call.history[2]
    /\ conversation_history[HistoryCap].content = call.content

\* the weekday numbers of a cron rule: Sunday is 0, Monday is 1
SundayZero ==
    [sunday |-> 0, monday |-> 1, tuesday |-> 2, wednesday |-> 3,
     thursday |-> 4, friday |-> 5, saturday |-> 6]

\* C24: for "every W at HH:MM" with a valid HH:MM the rule is
\* "minute hour * * dow" with Sunday = 0, and the first occurrence is on
\* weekday W at HH:MM, not before the current instant and at most 7 days
\* after the current day.
C24_WeeklyFirstOccurrence ==
    (/\ call.fn = "parse_recurrence_pattern"
     /\ call.text.every.kind = "week"
     /\ call.text.clock.ampm = ""
     /\ ValidTime(call.text.clock.hour, call.text.clock.minute))
      => /\ result.raised = ""
         /\ result.error = ""
         /\ result.cron =
              Cron(call.text.clock.minute, call.text.clock.hour, Star,
                   SundayZero[call.text.every.day_of_week])
         /\ weekday(result.time) =
              (SundayZero[call.text.every.day_of_week] + 6) % 7
         /\ result.time.hour = call.text.clock.hour
         /\ result.time.minute = call.text.clock.minute
         /\ ~Before(result.time, call.now)
         /\ toordinal(result.time) - toordinal(call.now) <= 7

\* the hour of the day that a clock clause names: 12 AM is 0, 12 PM is 12,
\* h PM is h + 12
HourNamed(clock) ==
    IF clock.ampm = "" THEN clock.hour
    ELSE IF clock.hour = 12 THEN (IF clock.ampm = "am" THEN 0 ELSE 12)
    ELSE IF clock.ampm = "pm" THEN clock.hour + 12
    ELSE clock.hour

\* a time-only request: a 24-hour time, or a 12-hour time with AM or PM
TimeOnlyRequest ==
    /\ call.fn = "parse_reminder_time"
    /\ call.text.date = NoDate
    /\ call.text.clock # NoClock
    /\ call.text.clock.minute \in 0..59
    /\ IF call.text.clock.ampm = "" THEN call.text.clock.hour \in 0..23
       ELSE call.text.clock.hour \in 1..12

\* C25: a time-only request gives today at that time of day when that
\* instant is not before the current instant and tomorrow at that time of
\* day otherwise; the result is not before the current instant and not
\* more than 24 hours after it.
C25_TimeOnlyRolls ==
    TimeOnlyRequest =>
        LET today == [call.now EXCEPT !.hour = HourNamed(call.text.clock),
                                      !.minute = call.text.clock.minute,
                                      !.second = 0]
        IN  /\ result.raised = ""
            /\ result.error = ""
            /\ result.time = IF Before(today, call.now)
                             THEN timedelta_add(today, 1, 0) ELSE today
            /\ ~Before(result.time, call.now)
            /\ ~Before(timedelta_add(call.now, 1, 0), result.time)

\* at 23:30:30 on 31 December 2024 "9:30 PM" was asked for and the result
\* is 21:30 on 1 January 2025
C25_Witness ==
    /\ TimeOnlyRequest
    /\ call.text.clock = [hour |-> 9, minute |-> 30, ampm |-> "pm"]
    /\ call.now = DateTime(2024, 12, 31, 23, 30, 30)
    /\ result.time = DateTime(2025, 1, 1, 21, 30, 0)

\* C26: "in N <unit>" with the unit seconds, minutes, hours, days or weeks
\* gives the current instant plus N units and no error.
C26_RelativeDuration ==
    (call.fn = "parse_reminder_time" /\ call.text.rel # NoRel) =>
        /\ result.raised = ""
        /\ result.error = ""
        /\ result.time =
             IF call.text.rel.unit = "seconds"
             THEN [call.now EXCEPT !.second = @ + call.text.rel.n]
             ELSE timedelta_add(call.now, 0,
                    call.text.rel.n *
                      (CASE call.text.rel.unit = "minutes" -> 1
                         [] call.text.rel.unit = "hours" -> 60
                         [] call.text.rel.unit = "days" -> 24 * 60
                         [] call.text.rel.unit = "weeks" -> 7 * 24 * 60))

\* the text with its 12-hour time written as the 24-hour time it names
In24Hours(text) ==
    [text EXCEPT !.clock = [hour |-> HourNamed(text.clock),
                            minute |-> text.clock.minute, ampm |-> ""]]

\* a text whose clock clause is a 12-hour time with AM or PM, its date
\* clause, when it has one, a date of the calendar
TwelveHourRequest ==
    /\ call.fn \in {"parse_reminder_time", "parse_recurrence_pattern"}
    /\ call.text.clock # NoClock
    /\ call.text.clock.ampm # ""
    /\ call.text.clock.hour \in 1..12
    /\ call.text.clock.minute \in 0..59
    /\ \/ call.text.date = NoDate
       \/ ValidDate(YearOf(call.text.date), call.text.date.month,
                    call.text.date.day)

\* C27: at every place AM/PM is accepted (date and time, time only, daily,
\* weekly and monthly recurrence) a 12-hour text with hour 1..12 is parsed
\* to what the equivalent 24-hour text is parsed to, and converting the
\* converted hour again leaves it unchanged.
C27_TwelveHourAs24 ==
    TwelveHourRequest =>
        /\ call.fn = "parse_reminder_time" =>
             result = parse_reminder_time(In24Hours(call.text), call.now)
        /\ call.fn = "parse_recurrence_pattern" =>
             result = parse_recurrence_pattern(In24Hours(call.text),
                                               call.now)
        /\ hour_24(hour_24(call.text.clock.hour, call.text.clock.ampm),
                   call.text.clock.ampm)
             = hour_24(call.text.clock.hour, call.text.clock.ampm)

\* "15/6/25 at 12:30 AM" was parsed to 15 June 2025, 00:30
C27_Witness ==
    /\ TwelveHourRequest
    /\ call.fn = "parse_reminder_time"
    /\ call.text.date = TextDate(15, 6, 25, 2)
    /\ call.text.clock = [hour |-> 12, minute |-> 30, ampm |-> "am"]
    /\ result.time = DateTime(2025, 6, 15, 0, 30, 0)

\* C28: whatever the text, the parser returns: either a timestamp and no
\* error, or no timestamp and an error message; a matched pattern with a
\* value out of range (a day, month, hour or minute that no date or time
\* has) gives an error message, never an exception.
C28_ParsersReturn ==
    (call.fn \in {"parse_reminder_time", "parse_recurrence_pattern"}) =>
        /\ result.raised = ""
        /\ \/ result.time # NoDateTime /\ result.error = ""
           \/ result.time = NoDateTime /\ result.error # ""

\* C29: however the remote call of ask_question fails (timeout, transport
\* error, status other than 200, malformed body), ask_question returns a
\* value with success false and an error text; no exception leaves it.
C29_FailureIsReturned ==
    (call.fn = "ask_question") =>
        /\ result.raised = ""
        /\ (call.remote # "ok") => (~result.success /\ result.error # "")

\* the messages were sent and the body of the response was not JSON
C29_Witness ==
    /\ call.fn = "ask_question"
    /\ call.remote = "bad_json"
    /\ Len(messages) > 2
    /\ ~result.success
    /\ result.error = "Unexpected error"

\* a scheduled job has just ended in a failure: a fire whose delivery
\* failed, a sweep whose select failed, or a process of a sweep that sent
\* nothing
JobFailed(r) ==
    \/ r.op = "send" /\ ~r.val
    \/ r.op = "sweep" /\ ~r.val
    \/ r.op = "process" /\ r.note # "ok"

\* C30: no exception leaves a scheduled job (a reminder fire, the due-date
\* sweep, a frequency-tier sweep), and a job that fails leaves the triggers
\* of the reminders and the interval jobs of the news scheduler installed
\* as they were.
C30_JobFailureContained ==
    [][ /\ escaped' = ""
        /\ JobFailed(ret') => (jobs' = jobs /\ timers' = timers
                               /\ timers' = NewsTimers) ]_vars

\* the delivery of a fire has just failed while the recurring reminder's
\* trigger and the four interval jobs are installed
C30_Witness ==
    /\ ret.op = "send"
    /\ ~ret.val
    /\ escaped = ""
    /\ \E j \in BagToSet(jobs) : j.is_recurring
    /\ timers = NewsTimers
    /\ subscriptions # << >>

\* t is s without its leading and trailing whitespace
IsTrimOf(t, s) ==
    \E l \in 0..Len(s) :
        /\ l + Len(t) <= Len(s)
        /\ \A k \in 1..Len(s) :
              IF k > l /\ k <= l + Len(t) THEN s[k] = t[k - l]
              ELSE s[k] = " "
        /\ t # << >> => (t[1] # " " /\ t[Len(t)] # " ")

\* the tokens of c at the positions after from and before to
TextBetween(c, from, to) ==
    [k \in 1..(IF to - from - 1 > 0 THEN to - from - 1 ELSE 0) |->
        c[from + k]]

\* the first position of a token that c holds
FirstAt(c, token) ==
    CHOOSE i \in 1..Len(c) :
        c[i] = token /\ \A k \in 1..(i - 1) : c[k] # token

\* the response as cleaned: the part of it that is the response without
\* an assistant tag at its start and without leading and trailing
\* whitespace
CleanedResponse(response) ==
    LET body == IF response # << >> /\ response[1] = "<|Assistant|>"
                THEN Tail(response) ELSE response
    IN  CHOOSE c \in {TextBetween(body, l, r) :
                        l \in 0..Len(body), r \in 1..(Len(body) + 1)} :
            IsTrimOf(c, body)

\* C31: when reasoning is requested and the response holds both thinking
\* delimiters, the thinking returned is exactly the trimmed text between
\* the opening and the closing delimiter and the answer is exactly the
\* trimmed text after the closing delimiter; when reasoning is not
\* requested, the answer is the whole cleaned response and the returned
\* value has no thinking field.
C31_ThinkingExtracted ==
    (call.fn = "ask_question" /\ call.remote = "ok") =>
        LET c == CleanedResponse(call.content)
        IN  /\ ~call.show_thinking =>
                  /\ result.success
                  /\ result.answer = c
                  /\ "thinking" \notin DOMAIN result
            /\ ( /\ call.show_thinking
                 /\ \E i \in 1..Len(c) : c[i] = "<think>"
                 /\ \E i \in 1..Len(c) : c[i] = "</think>" ) =>
                  LET open == FirstAt(c, "<think>")
                      close == FirstAt(c, "</think>")
                  IN  /\ result.success
                      /\ "thinking" \in DOMAIN result
                      /\ IsTrimOf(result.thinking,
                                  TextBetween(c, open, close))
                      /\ IsTrimOf(result.answer,
                                  TextBetween(c, close, Len(c) + 1))

\* a response with both delimiters was split into a thinking and a
\* different answer
C31_Witness ==
    /\ call.fn = "ask_question"
    /\ call.show_thinking
    /\ call.content = <<"<think>", "a", "</think>", "b">>
    /\ result.success
    /\ result.thinking = <<"a">>
    /\ result.answer = <<"b">>

\* a request "every Nth of each month at HH:MM" with a day N that a month
\* can have and a time of day HH:MM
MonthlyRequest ==
    /\ call.fn = "parse_recurrence_pattern"
    /\ call.text.every.kind = "month"
    /\ call.text.every.day \in 1..31
    /\ call.text.clock.minute \in 0..59
    /\ IF call.text.clock.ampm = "" THEN call.text.clock.hour \in 0..23
       ELSE call.text.clock.hour \in 1..12

\* C32: for "every Nth of each month at HH:MM" the rule is
\* "minute hour N * *" and the first occurrence is day min(N, 28) of the
\* current month at HH:MM when that instant has not passed, otherwise the
\* same day of the following month (January of the next year after
\* December); the first occurrence is never before the current instant.
C32_MonthlyFirstOccurrence ==
    MonthlyRequest =>
        LET N == call.text.every.day
            this_month ==
                DateTime(call.now.year, call.now.month,
                         IF N < 28 THEN N ELSE 28,
                         HourNamed(call.text.clock),
                         call.text.clock.minute, 0)
            following ==
                IF call.now.month = 12
                THEN [this_month EXCEPT !.year = call.now.year + 1,
                                        !.month = 1]
                ELSE [this_month EXCEPT !.month = call.now.month + 1]
        IN  /\ result.raised = ""
            /\ result.error = ""
            /\ result.cron = [minute |-> call.text.clock.minute,
                              hour |-> HourNamed(call.text.clock),
                              day |-> N, month |-> Star,
                              day_of_week |-> Star]
            /\ result.time = IF Before(this_month, call.now)
                             THEN following ELSE this_month
            /\ ~Before(result.time, call.now)

\* at 09:00:30 on 28 December 2024 "every 28th of each month at 9:00" was
\* asked for: the first occurrence is 28 January 2025
C32_Witness ==
    /\ MonthlyRequest
    /\ call.text.every.day = 28
    /\ call.now = DateTime(2024, 12, 28, 9, 0, 30)
    /\ call.text.clock = [hour |-> 9, minute |-> 0, ampm |-> ""]
    /\ result.time = DateTime(2025, 1, 28, 9, 0, 0)

\* the clauses of at least two one-shot forms are in the text of the
\* request: a time (with or without a date), a relative duration, a word
ManyForms(text) ==
    /\ text.clock # NoClock => text.clock \in FewClocks
    /\ \/ text.clock # NoClock /\ text.rel # NoRel
       \/ text.clock # NoClock /\ text.word # ""
       \/ text.rel # NoRel /\ text.word # ""

\* what the first of the forms in the text gives at the instant cur: the
\* date at the time, the time today or tomorrow, or cur plus the duration
FirstFormTime(text, cur) ==
    LET today == [cur EXCEPT !.hour = HourNamed(text.clock),
                             !.minute = text.clock.minute, !.second = 0]
    IN  IF text.clock # NoClock /\ text.date # NoDate
        THEN DateTime(text.date.year, text.date.month, text.date.day,
                      HourNamed(text.clock), text.clock.minute, 0)
        ELSE IF text.clock # NoClock
        THEN (IF Before(today, cur) THEN timedelta_add(today, 1, 0)
              ELSE today)
        ELSE IF text.rel.unit = "seconds"
        THEN [cur EXCEPT !.second = @ + text.rel.n]
        ELSE timedelta_add(cur, 0,
                text.rel.n * (CASE text.rel.unit = "minutes" -> 1
                                [] text.rel.unit = "hours" -> 60
                                [] text.rel.unit = "days" -> 24 * 60
                                [] text.rel.unit = "weeks" -> 7 * 24 * 60))

\* C33: a text with the clauses of several one-shot forms gives the result
\* of the form that comes first in the order date and time, time only,
\* relative duration, word, whatever the later ones are (a time with
\* "tomorrow" beside it is today or tomorrow at that time by the
\* roll-forward rule alone); a request with a recurrence form is treated
\* as recurring whatever one-shot clauses it holds.
C33_FirstFormWins ==
    /\ ( /\ call.fn \in {"parse_reminder_time", "parse_recurrence_pattern"}
         /\ call.text.every = NoEvery
         /\ ManyForms(call.text) )
        => /\ call.fn = "parse_reminder_time"
           /\ result.raised = ""
           /\ result.error = ""
           /\ result.time = FirstFormTime(call.text, call.now)
    /\ ( /\ call.fn \in {"parse_reminder_time", "parse_recurrence_pattern"}
         /\ call.text.every # NoEvery
         /\ call.text.every.kind = "month" => call.text.every.day \in 1..31
         /\ call.text.clock \in FewClocks )
        => /\ call.fn = "parse_recurrence_pattern"
           /\ result.raised = ""
           /\ result.cron # NoCron
           /\ result.time # NoDateTime

\* the create of reminder id is over, and the reminder is a one-shot one
\* that is active in the store after its scheduled time
ActiveElapsed(id) ==
    /\ id \in DOMAIN reminders
    /\ ~reminders[id].is_recurring
    /\ reminders[id].is_active
    /\ reminders[id].scheduled_at < now
    /\ crReminder = NoReminder \/ crReminder.id # id

\* C34: while the process keeps running and every job and coroutine gets
\* its turn, a one-shot reminder created with a scheduled time that is not
\* past does not stay active once that time has passed: it fires and
\* becomes inactive in the store, or it is deleted.
C34_OneShotEventuallyInactive ==
    \A id \in Ids : ActiveElapsed(id) ~> ~ActiveElapsed(id)

\* C35 as stated: every process call of a sweep, the due-date sweep or a
\* frequency-tier sweep, is for a subscription that the sweep read with
\* next_run <= the current instant, so no push is sent for a subscription
\* whose next_run is in the future.
C35_NoPushBeforeNextRun ==
    [][ ret'.op = "process" =>
            \A s \in sweepTodo \ sweepTodo' : s.next_run <= utcnow ]_vars

\* C35 as amended: every process call of the due-date sweep is for a
\* subscription that the sweep read as active with next_run <= the current
\* instant; every process call of a frequency-tier sweep is for a
\* subscription that the sweep read as active with that frequency,
\* whatever its next_run.
C35_SweepsProcessWhatTheySelect ==
    [][ ret'.op = "process" =>
            \A s \in sweepTodo \ sweepTodo' :
                /\ s.id = ret'.id
                /\ s.is_active
                /\ IF sweepKind = "due" THEN s.next_run <= utcnow
                   ELSE s.frequency = sweepKind ]_vars

\* the due-date sweep has just pushed the news of a subscription, whose
\* next_run is now in the future, and has another row left
C35_Witness ==
    /\ ret.op = "process"
    /\ ret.note = "ok"
    /\ sweepKind = "due"
    /\ sweepTodo # {}
    /\ subscriptions[ret.id].next_run > utcnow

\* C36: whatever the interleaving of subscribe (with a change of
\* frequency), unsubscribe and a sweep that processes a subscription it
\* read earlier, the next_run of every active subscription is never later
\* than the current instant plus one period of the frequency stored in
\* its row.
C36_NextRunWithinPeriod ==
    \A id \in DOMAIN subscriptions :
        subscriptions[id].is_active =>
            subscriptions[id].next_run <=
                utcnow + (IF subscriptions[id].frequency = "hourly" THEN Hour
                          ELSE IF subscriptions[id].frequency = "daily"
                          THEN Day ELSE Week)

\* a stored history as the updates of handle_regular_message build it from
\* the empty one: a user entry, an assistant entry, a user entry, ...
BuiltByUpdates(h) ==
    \A i \in 1..Len(h) :
        h[i].role = IF i % 2 = 1 THEN "user" ELSE "assistant"

\* C37: the entries that get_conversation_history returns after the system
\* entry are the last entries of the stored history, in the stored order:
\* no entry comes before an entry that was stored before it, and none of
\* the last entries is left out.
C37_SuffixInStoredOrder ==
    (call.fn = "get_conversation_history" /\ BuiltByUpdates(call.history)) =>
        LET out == Tail(result)
        IN  /\ \A i \in 1..(Len(out) - 1) :
                  out[i].content < out[i + 1].content
            /\ Len(out) <= Len(call.history)
            /\ out = SubSeq(call.history,
                            Len(call.history) - Len(out) + 1,
                            Len(call.history))

\* C38: a delete request sent by one user removes no reminder of another
\* user: every step of the delete_reminder call that the request started
\* leaves each reminder owned by another user in the store, with its
\* trigger, and leaves that user's reminders_count as it was.
C38_DeleteOnlyOwn ==
    [][ ( /\ call.fn = "handle_delete_reminder"
          /\ pcDelete \in {"commit", "unjob"}
          /\ pcDelete' # pcDelete )
        => \A id \in DOMAIN reminders :
              reminders[id].user_id # call.sender =>
                  /\ id \in DOMAIN reminders'
                  /\ HasJob(jobs, id) => HasJob(jobs', id)
                  /\ reminders_count'[reminders[id].user_id] =
                       reminders_count[reminders[id].user_id] ]_vars

\* the day of the week of dt as a cron rule numbers it: Sunday is 0,
\* Monday is 1, ..., Saturday is 6
CronWeekday(dt) == (weekday(dt) + 1) % 7

\* C39: for every recognized recurrence form the first occurrence is an
\* instant at which the returned rule fires: its minute and hour are those
\* of the rule, its day of the month is the rule's day (monthly form) and
\* its day of the week, Sunday being 0, is the rule's day of the week
\* (weekly form).
C39_FirstOccurrenceMatchesRule ==
    ( /\ call.fn = "parse_recurrence_pattern"
      /\ result.raised = ""
      /\ result.cron # NoCron )
    => /\ result.time # NoDateTime
       /\ result.time.minute = result.cron.minute
       /\ result.time.hour = result.cron.hour
       /\ result.cron.day # Star => result.time.day = result.cron.day
       /\ result.cron.day_of_week # Star =>
             CronWeekday(result.time) = result.cron.day_of_week

====
